---- MODULE Spec2Model ----
(***************************************************************************)
(* A model of the rn-dashboard data layer: DataProcessor (loading,         *)
(* cleaning, aggregation queries), FilterManager (primary and advanced     *)
(* filters) and the control flow of main().                                *)
(*                                                                         *)
(* Text is modelled by TLA+ strings, character by character (Len, SubSeq,  *)
(* \o).  A DataFrame is a record [columns, dtypes, rows]: rows is the      *)
(* sequence of the frame's rows in order, each a function from the column  *)
(* names to the cell values.                                               *)
(***************************************************************************)
EXTENDS Integers, Sequences, FiniteSets, TLC

VARIABLES
    pc,                \* position of the caller (which objects exist, what ran)
    csv_path,          \* DataProcessor.csv_path
    source,            \* what the file system holds at the path
    dp_df,             \* DataProcessor.df
    errors,            \* the st.error reports made so far, in order
    fm_df,             \* FilterManager.df
    filters,           \* the primary criteria of the last apply_filters call
    advanced_filters,  \* the criteria of the last apply_advanced_filters call
    df_filtered,       \* the view returned by apply_filters
    df_final,          \* the view returned by apply_advanced_filters
    shown,             \* the output of the aggregation query last run
    fresh,             \* TRUE when the last filter call returned a new frame object
    todo,              \* a pass over the filtering steps in free order: the steps
                       \* left to apply and the step applied last
    reruns,            \* how many times the script has been run again
    raised             \* TRUE when an exception escaped the last call

vars == <<pc, csv_path, source, dp_df, errors, fm_df, filters,
          advanced_filters, df_filtered, df_final, shown, fresh, todo, reruns,
          raised>>

(***************************************************************************)
(* Bounds                                                                  *)
(***************************************************************************)
MaxLoadRows == 2       \* rows of a source table given to the loader
MaxRows == 2           \* rows of a source table in the filter sessions

(***************************************************************************)
(* Text                                                                    *)
(***************************************************************************)
Char(s, i) == SubSeq(s, i, i)

\* Python's `t in s`
Contains(s, t) ==
    \E i \in 1..(Len(s) - Len(t) + 1) : SubSeq(s, i, i + Len(t) - 1) = t

UpperChars == "ABCDEFGHIJKLMNOPQRSTUVWXYZÁÂÃÀÉÊÍÓÔÕÚÇ"
LowerChars == "abcdefghijklmnopqrstuvwxyzáâãàéêíóôõúç"

\* the lower-case letter of each upper-case letter
LowerMap ==
    [c \in {Char(UpperChars, i) : i \in 1..Len(UpperChars)} |->
        Char(LowerChars, CHOOSE i \in 1..Len(UpperChars) : Char(UpperChars, i) = c)]

LowerChar(c) == IF c \in DOMAIN LowerMap THEN LowerMap[c] ELSE c

\* str.lower()
RECURSIVE Lower(_)
Lower(s) == IF s = "" THEN "" ELSE LowerChar(Char(s, 1)) \o Lower(Tail(s))

IsSpace(c) == c \in {" ", "\t", "\n", "\r"}

\* str.strip()
RECURSIVE LStrip(_)
LStrip(s) == IF s # "" /\ IsSpace(Char(s, 1)) THEN LStrip(Tail(s)) ELSE s

RECURSIVE RStrip(_)
RStrip(s) ==
    IF s # "" /\ IsSpace(Char(s, Len(s)))
    THEN RStrip(SubSeq(s, 1, Len(s) - 1))
    ELSE s

Strip(s) == RStrip(LStrip(s))

\* str.split(sep) for a one-character separator: always at least one piece
RECURSIVE Split(_, _)
Split(s, sep) ==
    IF ~Contains(s, sep)
    THEN <<s>>
    ELSE LET i == CHOOSE k \in 1..Len(s) :
                      /\ Char(s, k) = sep
                      /\ \A j \in 1..(k - 1) : Char(s, j) # sep
         IN  <<SubSeq(s, 1, i - 1)>> \o Split(SubSeq(s, i + 1, Len(s)), sep)

\* a sequence of names without its empty names
RECURSIVE DropEmptyNames(_)
DropEmptyNames(names) ==
    IF names = <<>> THEN <<>>
    ELSE (IF Head(names) = "" THEN <<>> ELSE <<Head(names)>>) \o DropEmptyNames(Tail(names))

\* the list derivation keeping the named pieces only
SplitListNamed(x) ==
    IF x = "" THEN <<>>
    ELSE LET pieces == Split(x, ";")
         IN  DropEmptyNames([i \in 1..Len(pieces) |-> Strip(pieces[i])])

\* the list derivation without the test for an empty text
SplitListOfAny(x) ==
    LET pieces == Split(x, ";")
    IN  [i \in 1..Len(pieces) |-> Strip(pieces[i])]

\* [x.strip() for x in text.split(';')] if text else []
SplitList(x) ==
    IF x = "" THEN <<>>
    ELSE LET pieces == Split(x, ";")
         IN  [i \in 1..Len(pieces) |-> Strip(pieces[i])]

(***************************************************************************)
(* Regular expressions, for the patterns the model uses: literal           *)
(* characters, '.', '^' and a top-level '|'.  No pattern of the model      *)
(* holds ')' or another operator, so a '(' is always unterminated and      *)
(* re.compile raises re.error.                                             *)
(***************************************************************************)
RegexCompiles(pat) == ~Contains(pat, "(")

\* one atom of the pattern against the text at position i (1-based); the
\* value is the position after the match, or 0 when the atom does not match
AtomMatch(a, s, i, ignorecase) ==
    IF a = "^" THEN (IF i = 1 THEN i ELSE 0)
    ELSE IF i > Len(s) THEN 0
    ELSE IF a = "." THEN (IF Char(s, i) # "\n" THEN i + 1 ELSE 0)
    ELSE IF ignorecase
         THEN (IF LowerChar(Char(s, i)) = LowerChar(a) THEN i + 1 ELSE 0)
         ELSE (IF Char(s, i) = a THEN i + 1 ELSE 0)

RECURSIVE MatchAt(_, _, _, _)
MatchAt(alt, s, i, ignorecase) ==
    IF alt = "" THEN TRUE
    ELSE LET j == AtomMatch(Char(alt, 1), s, i, ignorecase)
         IN  j # 0 /\ MatchAt(Tail(alt), s, j, ignorecase)

\* the pattern taken as plain text (regex=False)
RegexLiteral(pat, s, ignorecase) ==
    IF ignorecase THEN Contains(Lower(s), Lower(pat)) ELSE Contains(s, pat)

\* re.search(pat, s) is not None
RegexSearch(pat, s, ignorecase) ==
    LET alts == Split(pat, "|")
    IN  \E k \in 1..Len(alts) :
            \E i \in 1..(Len(s) + 1) : MatchAt(alts[k], s, i, ignorecase)

(***************************************************************************)
(* The source table and the DataFrame                                      *)
(***************************************************************************)
rn_features ==
    <<"RN_camera", "RN_maps", "RN_notificacoes", "RN_autenticacao", "RN_pagamentos">>

TextColumns ==
    {"ideia_resumo", "apps_semelhantes", "Complexidade", "Alertas_etico_legais"}
        \cup {rn_features[i] : i \in 1..Len(rn_features)}

AllColumns == {"id"} \cup TextColumns

\* pd.DataFrame()
EmptyFrame == [columns |-> {}, dtypes |-> <<>>, rows |-> <<>>]

\* DataFrame.empty
IsEmpty(df) == df.columns = {} \/ df.rows = <<>>

\* A missing value.  read_csv turns the cell texts of NaValues into NaN, so
\* no cell of a frame it returns holds the text "NaN": the model writes NaN so.
NaN == "NaN"
NaValues == {"", "NaN", "NA", "N/A", "null", "None"}

\* one line of the file: the cell texts under the ten column names
SourceRow(summary, apps, cam, maps, notif, auth, pag, cx, alerts) ==
    [ideia_resumo |-> summary, apps_semelhantes |-> apps, RN_camera |-> cam,
     RN_maps |-> maps, RN_notificacoes |-> notif, RN_autenticacao |-> auth,
     RN_pagamentos |-> pag, Complexidade |-> cx, Alertas_etico_legais |-> alerts]

\* the tables of at most n lines drawn from a set of lines
Tables(lines, n) == UNION {[1..k -> lines] : k \in 0..n}

CsvSource(cols, lines) == [kind |-> "csv", columns |-> cols, lines |-> lines]

MissingSource == [kind |-> "missing", columns |-> {}, lines |-> <<>>]
UnreadableSource == [kind |-> "unreadable", columns |-> {}, lines |-> <<>>]

\* pd.read_csv: the frame of the file's lines, the id column numbering them;
\* a column whose cells are all missing is read as float64
ReadCsvFrame(src) ==
    LET cell(i, c) ==
            IF c = "id" THEN i
            ELSE IF src.lines[i][c] \in NaValues THEN NaN ELSE src.lines[i][c]
        allNa(c) == /\ src.lines # <<>>
                    /\ \A i \in 1..Len(src.lines) : src.lines[i][c] \in NaValues
    IN  [columns |-> src.columns,
         dtypes |-> [c \in src.columns |->
                        IF c = "id" /\ src.lines # <<>> THEN "int64"
                        ELSE IF allNa(c) THEN "float64" ELSE "object"],
         rows |-> [i \in 1..Len(src.lines) |-> [c \in src.columns |-> cell(i, c)]]]

\* pd.read_csv(path): the exception it raises ("" when none) and the frame
ReadCsv(src) ==
    IF src.kind = "missing" THEN [exc |-> "FileNotFoundError", df |-> EmptyFrame]
    ELSE IF src.kind = "unreadable" THEN [exc |-> "Exception", df |-> EmptyFrame]
    ELSE [exc |-> "", df |-> ReadCsvFrame(src)]

(***************************************************************************)
(* DataFrame operations                                                    *)
(***************************************************************************)
\* the positions of a mask that are true, in increasing order
RECURSIVE KeptIndices(_, _)
KeptIndices(mask, from) ==
    IF from > Len(mask) THEN <<>>
    ELSE (IF mask[from] THEN <<from>> ELSE <<>>) \o KeptIndices(mask, from + 1)

\* the selection with its first position skipped (an off-by-one)
BoolIndexSkipFirst(df, mask) ==
    LET idx == KeptIndices(mask, 2)
    IN  [df EXCEPT !.rows = [k \in 1..Len(idx) |-> df.rows[idx[k]]]]

\* df[mask]: the rows whose mask is true, in the frame's order
BoolIndex(df, mask) ==
    LET idx == KeptIndices(mask, 1)
    IN  [df EXCEPT !.rows = [k \in 1..Len(idx) |-> df.rows[idx[k]]]]

\* df.dropna(subset=[col])
DropNa(df, col) ==
    BoolIndex(df, [i \in 1..Len(df.rows) |-> df.rows[i][col] # NaN])

\* df.fillna(''): a float64 column that held a NaN becomes an object column
FillNa(df) ==
    LET isNa(i, c) == df.dtypes[c] # "int64" /\ df.rows[i][c] = NaN
        hadNa(c) == \E i \in 1..Len(df.rows) : isNa(i, c)
    IN  [df EXCEPT
            !.rows = [i \in 1..Len(df.rows) |->
                        [c \in df.columns |->
                            IF isNa(i, c) THEN "" ELSE df.rows[i][c]]],
            !.dtypes = [c \in df.columns |->
                            IF hadNa(c) THEN "object" ELSE df.dtypes[c]]]

\* df[col] = values: the column is added to df, or replaced in it
SetColumn(df, col, values, dtype) ==
    [columns |-> df.columns \cup {col},
     dtypes |-> [c \in df.columns \cup {col} |-> IF c = col THEN dtype ELSE df.dtypes[c]],
     rows |-> [i \in 1..Len(df.rows) |->
                  [c \in df.columns \cup {col} |->
                      IF c = col THEN values[i] ELSE df.rows[i][c]]]]

\* a drop that leaves the column in place
KeepColumn(df, col) == df

\* df.drop(col, axis=1)
DropColumn(df, col) ==
    [columns |-> df.columns \ {col},
     dtypes |-> [c \in df.columns \ {col} |-> df.dtypes[c]],
     rows |-> [i \in 1..Len(df.rows) |-> [c \in df.columns \ {col} |-> df.rows[i][c]]]]

\* df.copy(): a new object with the same content
CopyFrame(df) == df

\* the .str accessor exists on object columns only
HasStr(df, col) == df.dtypes[col] = "object"

(***************************************************************************)
(* DataProcessor: loading and cleaning                                     *)
(***************************************************************************)
\* _clean_data on self.df = df.  exc names the exception a step raised ("" when
\* none); df is self.df as that step found it, or as the method left it.
CleanData(df) ==
    IF IsEmpty(df) THEN [exc |-> "", df |-> df]
    ELSE IF "ideia_resumo" \notin df.columns THEN [exc |-> "KeyError", df |-> df]
    ELSE
    LET d1 == DropNa(df, "ideia_resumo")
    IN  IF ~HasStr(d1, "ideia_resumo") THEN [exc |-> "AttributeError", df |-> d1]
    ELSE
    LET d2 == BoolIndex(d1, [i \in 1..Len(d1.rows) |->
                  ~RegexSearch("Sem ideia|indefinido", d1.rows[i]["ideia_resumo"], FALSE)])
        d3 == FillNa(d2)
    IN  IF "apps_semelhantes" \notin d3.columns THEN [exc |-> "KeyError", df |-> d3]
    ELSE
    LET d4 == SetColumn(d3, "apps_semelhantes_lista",
                        [i \in 1..Len(d3.rows) |->
                            SplitList(d3.rows[i]["apps_semelhantes"])], "object")
    IN  IF "Alertas_etico_legais" \notin d4.columns THEN [exc |-> "KeyError", df |-> d4]
    ELSE [exc |-> "",
          df |-> SetColumn(d4, "alertas_lista",
                           [i \in 1..Len(d4.rows) |->
                               SplitList(d4.rows[i]["Alertas_etico_legais"])], "object")]

\* what the except clauses of _load_data leave in self.df
KeepPartialFrame(df) == df

OnLoadFailure(df) == EmptyFrame

\* the st.error of the FileNotFoundError clause
NotFoundSilent(path) == <<>>

NotFoundReports(path) == <<"Arquivo nao encontrado">>

\* _load_data: the frame left in self.df and the st.error reports made
LoadData(path, src) ==
    IF path = "" THEN [df |-> EmptyFrame, reports |-> <<>>]
    ELSE
    LET read == ReadCsv(src)
        clean == CleanData(read.df)
    IN  IF read.exc = "FileNotFoundError"
        THEN [df |-> OnLoadFailure(read.df), reports |-> NotFoundReports(path)]
        ELSE IF read.exc # ""
        THEN [df |-> OnLoadFailure(read.df), reports |-> <<"Erro ao carregar dados">>]
        ELSE IF clean.exc # ""
        THEN [df |-> OnLoadFailure(clean.df), reports |-> <<"Erro ao carregar dados">>]
        ELSE [df |-> clean.df, reports |-> <<>>]

\* get_dataframe
GetDataframe(df) == CopyFrame(df)

(***************************************************************************)
(* FilterManager                                                           *)
(*                                                                         *)
(* A step's value is [exc, df]: the exception it raised ("" when none) and *)
(* the frame it leaves in the local df_filtered.                           *)
(***************************************************************************)
Ok(df) == [exc |-> "", df |-> df]
Raise(e, df) == [exc |-> e, df |-> df]

\* df.copy(): [shared, frame], shared telling whether the value is the very
\* object that was copied; a copy never is
CopyOf(df) == [shared |-> FALSE, frame |-> CopyFrame(df)]

\* the assignment without the copy: the same object under another name
NoCopy(df) == [shared |-> TRUE, frame |-> df]

\* df_filtered = self.df.copy()
CopyForFilters(df) == CopyOf(df)

\* df_filtered = df.copy()
CopyForAdvanced(df) == CopyOf(df)

\* the selection that leaves out the first row of the frame (an off-by-one)
FilterRowsSkipFirst(df, mask) == BoolIndexSkipFirst(df, mask)

\* df_filtered[mask]
FilterRows(df, mask) == BoolIndex(df, mask)

\* apply_filters, "Filtro de complexidade"
FilterComplexidade(self_df, df, f) ==
    IF f.complexidade = "Todos" THEN Ok(df)
    ELSE IF "Complexidade" \notin df.columns THEN Raise("KeyError", df)
    ELSE Ok(FilterRows(df, [i \in 1..Len(df.rows) |->
                              df.rows[i]["Complexidade"] = f.complexidade]))

\* the feature filter taking its rows from self.df instead of df_filtered
RECURSIVE FilterRecursosFromBase(_, _, _)
FilterRecursosFromBase(self_df, df, recursos) ==
    IF recursos = <<>> THEN Ok(df)
    ELSE IF Head(recursos) \notin self_df.columns THEN Raise("KeyError", df)
    ELSE FilterRecursosFromBase(self_df,
             FilterRows(self_df, [i \in 1..Len(self_df.rows) |->
                                     self_df.rows[i][Head(recursos)] = "Sim"]),
             Tail(recursos))

\* apply_filters, "Filtro de recursos RN": one selection per selected feature
RECURSIVE FilterRecursos(_, _, _)
FilterRecursos(self_df, df, recursos) ==
    IF recursos = <<>> THEN Ok(df)
    ELSE IF Head(recursos) \notin df.columns THEN Raise("KeyError", df)
    ELSE FilterRecursos(self_df,
             FilterRows(df, [i \in 1..Len(df.rows) |->
                                df.rows[i][Head(recursos)] = "Sim"]),
             Tail(recursos))

\* apply_filters, "Filtro de alertas eticos": the length of the raw text
FilterAlertas(self_df, df, f) ==
    IF f.com_alertas \notin {"Apenas com alertas", "Apenas sem alertas"} THEN Ok(df)
    ELSE IF "Alertas_etico_legais" \notin df.columns THEN Raise("KeyError", df)
    ELSE IF ~HasStr(df, "Alertas_etico_legais") THEN Raise("AttributeError", df)
    ELSE IF f.com_alertas = "Apenas com alertas"
    THEN Ok(FilterRows(df, [i \in 1..Len(df.rows) |->
                              Len(df.rows[i]["Alertas_etico_legais"]) > 0]))
    ELSE Ok(FilterRows(df, [i \in 1..Len(df.rows) |->
                              Len(df.rows[i]["Alertas_etico_legais"]) = 0]))

\* apply_filters, "Filtro de busca por texto": str.contains(text, case=False),
\* the text being a regular expression
FilterBusca(self_df, df, f) ==
    IF f.busca_texto = "" THEN Ok(df)
    ELSE IF "ideia_resumo" \notin df.columns THEN Raise("KeyError", df)
    ELSE IF ~HasStr(df, "ideia_resumo") THEN Raise("AttributeError", df)
    ELSE IF ~RegexCompiles(f.busca_texto) THEN Raise("re.error", df)
    ELSE Ok(FilterRows(df, [i \in 1..Len(df.rows) |->
                              RegexSearch(f.busca_texto, df.rows[i]["ideia_resumo"], TRUE)]))

\* apply_filters(filters) on self.df = self_df: exc and df as for a step;
\* self_df is self.df after the call, fresh tells whether the returned frame is
\* an object other than self.df
ApplyFilters(self_df, f) ==
    LET cp == CopyForFilters(self_df)
        s1 == FilterComplexidade(self_df, cp.frame, f)
        s2 == IF s1.exc # "" THEN s1 ELSE FilterRecursos(self_df, s1.df, f.recursos)
        s3 == IF s2.exc # "" THEN s2 ELSE FilterAlertas(self_df, s2.df, f)
        s4 == IF s3.exc # "" THEN s3 ELSE FilterBusca(self_df, s3.df, f)
        selected == \/ f.complexidade # "Todos"
                    \/ f.recursos # <<>>
                    \/ f.com_alertas \in {"Apenas com alertas", "Apenas sem alertas"}
                    \/ f.busca_texto # ""
    IN  [exc |-> s4.exc, df |-> s4.df, self_df |-> self_df,
         fresh |-> (~cp.shared \/ selected)]

\* sum(1 for x in row if x == 'Sim') over the five feature columns
RECURSIVE CountSim(_, _)
CountSim(row, k) ==
    IF k = 0 THEN 0
    ELSE CountSim(row, k - 1) + (IF row[rn_features[k]] = "Sim" THEN 1 ELSE 0)

NumFeatures(row) == CountSim(row, Len(rn_features))

\* the sum of the per-row feature counts of the rows i..Len(df.rows)
RECURSIVE CountSimSum(_, _)
CountSimSum(df, i) ==
    IF i > Len(df.rows) THEN 0
    ELSE CountSim(df.rows[i], Len(rn_features)) + CountSimSum(df, i + 1)

\* df_filtered['num_features'] = df_filtered[rn_features].apply(..., axis=1)
WithNumFeatures(df) ==
    SetColumn(df, "num_features",
              [i \in 1..Len(df.rows) |-> NumFeatures(df.rows[i])], "int64")

\* the range filter with the upper end left out
FilterNumFeaturesExclusive(df, a) ==
    Ok(FilterRows(df, [i \in 1..Len(df.rows) |->
                         /\ df.rows[i]["num_features"] >= a.min_features
                         /\ df.rows[i]["num_features"] < a.max_features]))

\* apply_advanced_filters, "Filtro por numero de recursos", the column set
FilterNumFeatures(df, a) ==
    IF "num_features" \notin df.columns THEN Raise("KeyError", df)
    ELSE Ok(FilterRows(df, [i \in 1..Len(df.rows) |->
                              /\ df.rows[i]["num_features"] >= a.min_features
                              /\ df.rows[i]["num_features"] <= a.max_features]))

\* the similar-apps filter deciding by the raw text with its surrounding
\* whitespace removed
FilterSimilarAppsStripped(df, a) ==
    IF a.has_similar_apps \notin {"Com apps semelhantes", "Sem apps semelhantes"}
    THEN Ok(df)
    ELSE Ok(FilterRows(df, [i \in 1..Len(df.rows) |->
                (Len(Strip(df.rows[i]["apps_semelhantes"])) > 0)
                    = (a.has_similar_apps = "Com apps semelhantes")]))

\* apply_advanced_filters, "Filtro por apps semelhantes": the raw text's length
FilterSimilarApps(df, a) ==
    IF a.has_similar_apps \notin {"Com apps semelhantes", "Sem apps semelhantes"}
    THEN Ok(df)
    ELSE IF "apps_semelhantes" \notin df.columns THEN Raise("KeyError", df)
    ELSE IF ~HasStr(df, "apps_semelhantes") THEN Raise("AttributeError", df)
    ELSE IF a.has_similar_apps = "Com apps semelhantes"
    THEN Ok(FilterRows(df, [i \in 1..Len(df.rows) |->
                              Len(df.rows[i]["apps_semelhantes"]) > 0]))
    ELSE Ok(FilterRows(df, [i \in 1..Len(df.rows) |->
                              Len(df.rows[i]["apps_semelhantes"]) = 0]))

\* apply_advanced_filters(df, advanced_filters): exc and df as for a step; arg
\* is the frame passed in as the call leaves it (the num_features column is set
\* in place on the working frame)
ApplyAdvancedFilters(df, a) ==
    LET cp == CopyForAdvanced(df)
        hasFeatures == \A k \in 1..Len(rn_features) : rn_features[k] \in df.columns
        work == WithNumFeatures(cp.frame)
        s1 == FilterNumFeatures(work, a)
        s2 == IF s1.exc # "" THEN s1 ELSE FilterSimilarApps(s1.df, a)
    IN  IF ~hasFeatures
        THEN [exc |-> "KeyError", df |-> cp.frame, arg |-> df, fresh |-> ~cp.shared]
        ELSE [exc |-> s2.exc,
              df |-> IF s2.exc # "" THEN s2.df ELSE DropColumn(s2.df, "num_features"),
              arg |-> IF cp.shared THEN work ELSE df,
              fresh |-> TRUE]

(***************************************************************************)
(* DataProcessor: aggregation queries                                      *)
(***************************************************************************)
\* the keys of `categories`, in the order of the dict
CategoryNames ==
    <<"Redes Sociais", "Educação", "Jogos", "E-commerce", "Saúde/Bem-estar",
      "Entretenimento", "Produtividade", "Transporte/Localização", "Finanças",
      "Utilitários">>

\* category_keywords, in the order of the dict
category_keywords ==
    << [category |-> "Redes Sociais",
        keywords |-> <<"rede social", "relacionamento", "social", "comunidade",
                       "encontros", "tinder", "cassino social">>],
       [category |-> "Educação",
        keywords |-> <<"aprendizado", "educação", "edu", "conhecimento", "curso",
                       "estudo", "ensinar", "tutorial", "aula", "roadmap">>],
       [category |-> "Jogos",
        keywords |-> <<"jogo", "game", "diversão", "competitivo", "ritmo", "fases",
                       "prêmios", "desafios">>],
       [category |-> "E-commerce",
        keywords |-> <<"mercadoria", "busca", "lojista", "marketplace", "cupons",
                       "preços", "fornecedores">>],
       [category |-> "Saúde/Bem-estar",
        keywords |-> <<"saúde", "mental", "humor", "estresse", "rotina", "água",
                       "medicamentos", "consultas", "treino", "dieta", "meditação",
                       "bem-estar", "cuidado", "respiração">>],
       [category |-> "Entretenimento",
        keywords |-> <<"youtube", "evento", "leitura", "séries", "mangás", "música",
                       "wallpapers">>],
       [category |-> "Produtividade",
        keywords |-> <<"agenda", "controle", "gestão", "tempo", "tarefas",
                       "organização", "produtividade", "hábitos", "rotina diária">>],
       [category |-> "Transporte/Localização",
        keywords |-> <<"caronas", "transporte", "ônibus", "uber", "viagens",
                       "entregas", "localização", "eventos da cidade">>],
       [category |-> "Finanças",
        keywords |-> <<"tributário", "estoque", "lucros", "dados de bancos", "fundos",
                       "educação financeira", "doações", "pix">>] >>

\* any(word in ideia for word in keywords)
AnyKeyword(ideia, keywords) ==
    \E k \in 1..Len(keywords) : Contains(ideia, keywords[k])

\* the positions of the categories holding the longest keyword found in the
\* text: the most specific keyword decides, not the first category
MatchingPositionsMostSpecific(ideia) ==
    LET found == {p \in (1..Len(category_keywords)) \X (1..14) :
                     /\ p[2] <= Len(category_keywords[p[1]].keywords)
                     /\ Contains(ideia, category_keywords[p[1]].keywords[p[2]])}
        length(p) == Len(category_keywords[p[1]].keywords[p[2]])
    IN  KeptIndices([k \in 1..Len(category_keywords) |->
                        \E p \in found : /\ p[1] = k
                                         /\ \A q \in found : length(q) <= length(p)], 1)

\* the positions of category_keywords whose keywords match the lower-cased text
MatchingPositions(ideia) ==
    KeptIndices([k \in 1..Len(category_keywords) |->
                    AnyKeyword(ideia, category_keywords[k].keywords)], 1)

\* how many keywords of the list occur in the text
KeywordCount(ideia, keywords) ==
    Cardinality({k \in 1..Len(keywords) : Contains(ideia, keywords[k])})

\* best match instead of first match: the category with the most keywords in
\* the text, the earlier one on a tie
AssignedBestMatch(ideia) ==
    LET m == MatchingPositions(ideia)
        best == CHOOSE k \in 1..Len(m) :
                    \A j \in 1..Len(m) :
                        \/ KeywordCount(ideia, category_keywords[m[j]].keywords)
                              < KeywordCount(ideia, category_keywords[m[k]].keywords)
                        \/ /\ KeywordCount(ideia, category_keywords[m[j]].keywords)
                                = KeywordCount(ideia, category_keywords[m[k]].keywords)
                           /\ k <= j
    IN  IF m = <<>> THEN <<"Utilitários">>
        ELSE <<category_keywords[m[best]].category>>

\* the loop over the categories without its break: every matching category
AssignedWithoutBreak(ideia) ==
    LET m == MatchingPositions(ideia)
    IN  IF m = <<>> THEN <<"Utilitários">>
        ELSE [k \in 1..Len(m) |-> category_keywords[m[k]].category]

\* the categories whose list one row is appended to: the first matching one
\* (the loop breaks there), 'Utilitários' when none matches
AssignedCategories(ideia) ==
    LET m == MatchingPositions(ideia)
    IN  IF m = <<>> THEN <<"Utilitários">>
        ELSE <<category_keywords[m[1]].category>>

\* categories[c].append(summary) for each c of cs, in order
RECURSIVE AppendTo(_, _, _)
AppendTo(categories, cs, summary) ==
    IF cs = <<>> THEN categories
    ELSE AppendTo([categories EXCEPT ![Head(cs)] = Append(@, summary)],
                  Tail(cs), summary)

\* the loop of get_categories_analysis over the rows from row i on
RECURSIVE CategoriesFrom(_, _, _)
CategoriesFrom(df, i, categories) ==
    IF i > Len(df.rows) THEN categories
    ELSE CategoriesFrom(df, i + 1,
             AppendTo(categories,
                      AssignedCategories(Lower(df.rows[i]["ideia_resumo"])),
                      df.rows[i]["ideia_resumo"]))

\* get_categories_analysis on self.df = df: [exc, out]
GetCategoriesAnalysis(df) ==
    LET empty == [c \in {CategoryNames[k] : k \in 1..Len(CategoryNames)} |-> <<>>]
    IN  IF df.rows # <<>> /\ "ideia_resumo" \notin df.columns
        THEN [exc |-> "KeyError", out |-> empty]
        ELSE [exc |-> "", out |-> CategoriesFrom(df, 1, empty)]

(***************************************************************************)
(* The loader on its own: a DataProcessor is constructed over a source     *)
(***************************************************************************)
CsvPath == "ideias_apps_viabilidade.csv"

Nao5(summary, apps, cx, alerts) ==
    SourceRow(summary, apps, "Não", "Não", "Não", "Não", "Não", cx, alerts)

LoadLines ==
    { SourceRow("Rede social para pets", "Instagram; Tinder",
                "Sim", "Não", "Sim", "Sim", "Não", "Média",
                "LGPD (dados pessoais/sensíveis); Moderação de conteúdo"),
      Nao5("Sem ideia", "", "Baixa", ""),
      Nao5("App ainda indefinido", "", "", ""),
      Nao5("", "Uber", "Alta", ""),
      Nao5("sem ideia definida", "", "Baixa", ""),
      Nao5("Jogo de ritmo", "", "Alta", "") }

LoadColumnSets ==
    {AllColumns} \cup
    {AllColumns \ {c} : c \in {"ideia_resumo", "apps_semelhantes",
                               "Alertas_etico_legais", "Complexidade"}}

LoadSources ==
    {MissingSource, UnreadableSource} \cup
    {CsvSource(cols, lines) : cols \in LoadColumnSets,
                              lines \in Tables(LoadLines, MaxLoadRows)}

NoFilters == [complexidade |-> "Todos", recursos |-> <<>>,
              com_alertas |-> "Todos", busca_texto |-> ""]

NoAdvancedFilters == [min_features |-> 0, max_features |-> 5,
                      has_similar_apps |-> "Todos"]

NoPass == [left |-> {}, last |-> ""]

NothingShown == [query |-> "", on |-> "", exc |-> "", out |-> <<>>]

\* before anything is constructed: the given path over the given source
NothingBuilt(path, src) ==
    /\ pc = "new"
    /\ csv_path = path
    /\ source = src
    /\ dp_df = EmptyFrame
    /\ errors = <<>>
    /\ fm_df = EmptyFrame
    /\ filters = NoFilters
    /\ advanced_filters = NoAdvancedFilters
    /\ df_filtered = EmptyFrame
    /\ df_final = EmptyFrame
    /\ shown = NothingShown
    /\ fresh = TRUE
    /\ todo = NoPass
    /\ reruns = 0
    /\ raised = FALSE

InitLoad ==
    \/ NothingBuilt("", MissingSource)
    \/ \E src \in LoadSources : NothingBuilt(CsvPath, src)

\* DataProcessor(csv_path): __init__ runs _load_data, which catches every
\* exception of reading and cleaning
Construct ==
    /\ pc = "new"
    /\ LET res == LoadData(csv_path, source)
       IN  /\ dp_df' = res.df
           /\ errors' = errors \o res.reports
    /\ raised' = FALSE
    /\ pc' = "loaded"
    /\ UNCHANGED <<csv_path, source, fm_df, filters, advanced_filters,
                   df_filtered, df_final, shown, fresh, todo, reruns>>

NextLoad == Construct

SpecLoad == InitLoad /\ [][NextLoad]_vars

(***************************************************************************)
(* Claims about the loader (SpecLoad)                                      *)
(***************************************************************************)
\* the load raises inside _load_data: reading fails or a cleaning step fails
ReadFails == csv_path # "" /\ ReadCsv(source).exc # ""
CleanFails == csv_path # "" /\ ReadCsv(source).exc = ""
                 /\ CleanData(ReadCsv(source).df).exc # ""

\* C1: after loading, no record of DataProcessor.df has a missing or empty
\* ideia_resumo or one that contains 'Sem ideia' or 'indefinido'; a source
\* whose only record has the summary 'Sem ideia' leaves an empty Dataset.
C1_NoPlaceholderSummary ==
    pc = "loaded" =>
        /\ \A i \in 1..Len(dp_df.rows) :
              LET t == dp_df.rows[i]["ideia_resumo"]
              IN  /\ t # ""
                  /\ t # NaN
                  /\ ~Contains(t, "Sem ideia")
                  /\ ~Contains(t, "indefinido")
        /\ (/\ csv_path # ""
            /\ source.kind = "csv"
            /\ Len(source.lines) = 1
            /\ source.lines[1]["ideia_resumo"] = "Sem ideia") => IsEmpty(dp_df)

\* C1 witness: a loaded table of two lines, one dropped for its 'indefinido'
\* summary and one kept.
C1_Witness ==
    /\ pc = "loaded"
    /\ source.kind = "csv"
    /\ Len(source.lines) = 2
    /\ \E i \in 1..2 : Contains(source.lines[i]["ideia_resumo"], "indefinido")
    /\ Len(dp_df.rows) = 1

\* every text cell filled and both derived lists present
FullyCleaned(df) ==
    /\ {"apps_semelhantes_lista", "alertas_lista"} \subseteq df.columns
    /\ \A i \in 1..Len(df.rows) :
          \A c \in df.columns \cap TextColumns : df.rows[i][c] # NaN

\* C2: constructing a DataProcessor raises nothing to the caller, and a load
\* that fails (file missing, unreadable, or a cleaning step raising after rows
\* were dropped or filled) leaves pd.DataFrame(), never a partly cleaned table.
C2_FailedLoadLeavesEmpty ==
    pc = "loaded" =>
        /\ ~raised
        /\ (ReadFails \/ CleanFails) => dp_df = EmptyFrame
        /\ dp_df.rows # <<>> => FullyCleaned(dp_df)

\* C2 witness: cleaning failed on the missing apps_semelhantes column after a
\* row had been dropped and the rest filled, and the Dataset is empty.
C2_Witness ==
    /\ pc = "loaded"
    /\ CleanFails
    /\ "apps_semelhantes" \notin source.columns
    /\ LET partial == CleanData(ReadCsv(source).df).df
       IN  /\ partial.rows # <<>>
           /\ Len(partial.rows) < Len(source.lines)
    /\ dp_df = EmptyFrame

\* C3 as stated: every load that ends empty because the source is absent
\* (an empty path included) or cannot be parsed reports an error.
C3_EveryAbsentSourceReported ==
    (pc = "loaded" /\ (csv_path = "" \/ ReadFails \/ CleanFails)) => errors # <<>>

\* C3 amended: with a non-empty path, a source that is not found leaves the
\* empty Dataset and the 'Arquivo nao encontrado' report, any other failure
\* the empty Dataset and the 'Erro ao carregar dados' report; an empty path
\* leaves the empty Dataset and no report.
C3_NonEmptyPathFailureReported ==
    pc = "loaded" =>
        /\ (csv_path # "" /\ source.kind = "missing") =>
              (dp_df = EmptyFrame /\ errors = <<"Arquivo nao encontrado">>)
        /\ ((ReadFails /\ source.kind # "missing") \/ CleanFails) =>
              (dp_df = EmptyFrame /\ errors = <<"Erro ao carregar dados">>)
        /\ csv_path = "" => (dp_df = EmptyFrame /\ errors = <<>>)

\* C3 witness: a non-empty path with no file behind it, loaded and reported.
C3_Witness ==
    /\ pc = "loaded"
    /\ csv_path # ""
    /\ source.kind = "missing"
    /\ errors # <<>>

(***************************************************************************)
(* A session of calls on one DataProcessor and one FilterManager (Spec)    *)
(***************************************************************************)
FilterLines ==
    { SourceRow("Rede social para pets", "Instagram; Tinder",
                "Sim", "Não", "Sim", "Sim", "Não", "Média",
                "LGPD (dados pessoais/sensíveis); Moderação de conteúdo"),
      SourceRow("Jogo social de ritmo", "",
                "Não", "Não", "Não", "Não", "Não", "Alta", ""),
      SourceRow("App de caronas", "Uber",
                "Sim", "Sim", "Não", "Não", "Sim", "Alta", "Coleta de localização"),
      SourceRow("Lista de compras v2.0", "",
                "sim", "Não", "Sim", "Não", "Não", "Baixa", "") }

FilterSources == {CsvSource(AllColumns, lines) : lines \in Tables(FilterLines, MaxRows)}

ComplexidadeChoices == {"Todos", "Alta"}
RecursosChoices == {<<>>, <<"RN_camera">>, <<"RN_camera", "RN_maps">>}
AlertasChoices == {"Todos", "Apenas com alertas", "Apenas sem alertas"}
BuscaChoices == {"", "rede", ".", "("}

FilterChoices ==
    [complexidade : ComplexidadeChoices, recursos : RecursosChoices,
     com_alertas : AlertasChoices, busca_texto : BuscaChoices]

RangeChoices == {<<0, 5>>, <<2, 3>>, <<1, 5>>}
SimilarChoices == {"Todos", "Com apps semelhantes", "Sem apps semelhantes"}

AdvancedChoices ==
    {[min_features |-> r[1], max_features |-> r[2], has_similar_apps |-> h] :
        r \in RangeChoices, h \in SimilarChoices}

Init == \E src \in FilterSources : NothingBuilt(CsvPath, src)

\* FilterManager(data_processor)
NewFilterManager ==
    /\ pc = "loaded"
    /\ fm_df' = GetDataframe(dp_df)
    /\ pc' = "ready"
    /\ UNCHANGED <<csv_path, source, dp_df, errors, filters, advanced_filters,
                   df_filtered, df_final, shown, fresh, todo, raised, reruns>>

\* df_filtered = filter_manager.apply_filters(f)
DoApplyFilters(f) ==
    /\ pc = "ready"
    /\ LET res == ApplyFilters(fm_df, f)
       IN  /\ filters' = f
           /\ fm_df' = res.self_df
           /\ raised' = (res.exc # "")
           /\ df_filtered' = IF res.exc # "" THEN EmptyFrame ELSE res.df
           /\ fresh' = res.fresh
    /\ advanced_filters' = NoAdvancedFilters
    /\ df_final' = EmptyFrame
    /\ shown' = NothingShown
    /\ pc' = "filtered"
    /\ UNCHANGED <<csv_path, source, dp_df, errors, todo, reruns>>

\* filter_manager.apply_advanced_filters(df_filtered, a), on the view that
\* apply_filters returned
DoApplyAdvanced(a) ==
    /\ pc = "filtered"
    /\ ~raised
    /\ LET res == ApplyAdvancedFilters(df_filtered, a)
       IN  /\ advanced_filters' = a
           /\ df_filtered' = res.arg
           /\ raised' = (res.exc # "")
           /\ df_final' = IF res.exc # "" THEN EmptyFrame ELSE res.df
           /\ fresh' = res.fresh
    /\ shown' = NothingShown
    /\ pc' = "final"
    /\ UNCHANGED <<csv_path, source, dp_df, errors, fm_df, filters, todo, reruns>>

ApplyFiltersCall == \E f \in FilterChoices : DoApplyFilters(f)

ApplyAdvancedCall == \E a \in AdvancedChoices : DoApplyAdvanced(a)

\* filter_manager.apply_advanced_filters(filter_manager.df, a): the manager's
\* own frame is the view passed in
DoApplyAdvancedOnBase(a) ==
    /\ pc = "ready"
    /\ LET res == ApplyAdvancedFilters(fm_df, a)
       IN  /\ advanced_filters' = a
           /\ fm_df' = res.arg
           /\ raised' = (res.exc # "")
           /\ df_final' = IF res.exc # "" THEN EmptyFrame ELSE res.df
           /\ fresh' = res.fresh
    /\ filters' = NoFilters
    /\ df_filtered' = EmptyFrame
    /\ shown' = NothingShown
    /\ pc' = "final"
    /\ UNCHANGED <<csv_path, source, dp_df, errors, todo, reruns>>

ApplyAdvancedOnBase == \E a \in AdvancedChoices : DoApplyAdvancedOnBase(a)

\* get_categories_analysis() of a processor whose df is the final view
\* (processor_filtered.df = df_filtered)
CategoriesOfView ==
    /\ pc = "final"
    /\ ~raised
    /\ LET res == GetCategoriesAnalysis(df_final)
       IN  shown' = [query |-> "get_categories_analysis", on |-> "view",
                     exc |-> res.exc, out |-> res.out]
    /\ UNCHANGED <<pc, csv_path, source, dp_df, errors, fm_df, filters,
                   advanced_filters, df_filtered, df_final, fresh, todo, raised, reruns>>

\* data_processor.get_categories_analysis(), on the whole Dataset
CategoriesOfDataset ==
    /\ pc = "ready"
    /\ LET res == GetCategoriesAnalysis(dp_df)
       IN  shown' = [query |-> "get_categories_analysis", on |-> "full",
                     exc |-> res.exc, out |-> res.out]
    /\ UNCHANGED <<pc, csv_path, source, dp_df, errors, fm_df, filters,
                   advanced_filters, df_filtered, df_final, fresh, todo, raised, reruns>>

\* the caller drops the views of the calls made so far; the DataProcessor and
\* the FilterManager stay
DropViews ==
    /\ pc \in {"filtered", "final"}
    /\ pc' = "ready"
    /\ filters' = NoFilters
    /\ advanced_filters' = NoAdvancedFilters
    /\ df_filtered' = EmptyFrame
    /\ df_final' = EmptyFrame
    /\ shown' = NothingShown
    /\ fresh' = TRUE
    /\ raised' = FALSE
    /\ UNCHANGED <<csv_path, source, dp_df, errors, fm_df, todo, reruns>>

Next ==
    \/ Construct
    \/ NewFilterManager
    \/ DropViews
    \/ ApplyFiltersCall
    \/ ApplyAdvancedCall
    \/ ApplyAdvancedOnBase
    \/ CategoriesOfView
    \/ CategoriesOfDataset

Spec == Init /\ [][Next]_vars

(***************************************************************************)
(* Claims about the filter calls (Spec)                                    *)
(***************************************************************************)
\* C4: no filter or aggregation call changes DataProcessor.df or
\* FilterManager.df once they are built, apply_advanced_filters leaves the view
\* passed to it as it was, and every filter call returns a new frame object.
C4_FilteringNeverMutates ==
    [][ /\ pc # "new" => dp_df' = dp_df
        /\ pc \notin {"new", "loaded"} => fm_df' = fm_df
        /\ (pc = "filtered" /\ pc' = "final") => df_filtered' = df_filtered
        /\ pc' \in {"filtered", "final"} => fresh' ]_vars

\* C4 witness: both filter calls were made and each removed a row.
C4_Witness ==
    /\ pc = "final"
    /\ ~raised
    /\ Len(df_filtered.rows) < Len(fm_df.rows)
    /\ Len(df_final.rows) < Len(df_filtered.rows)

\* the primary criteria as the specification words them, on one record
SatisfiesPrimary(row, f) ==
    /\ f.complexidade # "Todos" => row["Complexidade"] = f.complexidade
    /\ \A k \in 1..Len(f.recursos) : row[f.recursos[k]] = "Sim"
    /\ f.com_alertas = "Apenas com alertas" => Len(row["alertas_lista"]) > 0
    /\ f.com_alertas = "Apenas sem alertas" => Len(row["alertas_lista"]) = 0
    /\ Contains(Lower(row["ideia_resumo"]), Lower(f.busca_texto))

\* the advanced criteria as the specification words them, on one record
SatisfiesAdvanced(row, a) ==
    /\ a.min_features <= NumFeatures(row)
    /\ NumFeatures(row) <= a.max_features
    /\ a.has_similar_apps = "Com apps semelhantes" =>
          Len(row["apps_semelhantes_lista"]) > 0
    /\ a.has_similar_apps = "Sem apps semelhantes" =>
          Len(row["apps_semelhantes_lista"]) = 0

\* C5: the view apply_filters returns has at most the rows of the base, and
\* every row of it satisfies every active criterion: the complexity level, all
\* the selected features, the alert option and the search text.
C5_ResultSatisfiesCriteria ==
    (pc = "filtered" /\ ~raised) =>
        /\ Len(df_filtered.rows) <= Len(fm_df.rows)
        /\ \A i \in 1..Len(df_filtered.rows) :
              SatisfiesPrimary(df_filtered.rows[i], filters)

\* C6: apply_filters then apply_advanced_filters returns exactly the rows of
\* the base Dataset that satisfy all active criteria, once each and in the
\* order of the base; with every criterion neutral, all the rows of the base.
C6_ExactSubsequence ==
    (pc = "final" /\ ~raised /\ df_filtered # EmptyFrame) =>
        /\ df_final.rows =
              BoolIndex(dp_df, [i \in 1..Len(dp_df.rows) |->
                                   /\ SatisfiesPrimary(dp_df.rows[i], filters)
                                   /\ SatisfiesAdvanced(dp_df.rows[i], advanced_filters)]).rows
        /\ (filters = NoFilters /\ advanced_filters = NoAdvancedFilters) =>
              df_final.rows = dp_df.rows

\* the search texts without any character a regular expression reads specially
PlainSearch == filters.busca_texto \in {"", "rede"}

\* C5 and C6 where the search text is plain: the only rows that break them
\* are the ones the search text selects as a regular expression.
C5_C6_HoldForPlainSearch ==
    PlainSearch => (C5_ResultSatisfiesCriteria /\ C6_ExactSubsequence)

\* C7: filtering again with the same criteria removes nothing more: the
\* primary criteria on the view apply_filters returned, and
\* apply_advanced_filters on the view it returned (rows and columns).
C7_Idempotent ==
    /\ (pc = "filtered" /\ ~raised) =>
          LET again == ApplyFilters(df_filtered, filters)
          IN  again.exc = "" /\ again.df = df_filtered
    /\ (pc = "final" /\ ~raised) =>
          LET again == ApplyAdvancedFilters(df_final, advanced_filters)
          IN  again.exc = "" /\ again.df = df_final

\* C7 witness: both calls narrowed the view and rows are left to filter again.
C7_Witness ==
    /\ pc = "final"
    /\ ~raised
    /\ filters.recursos # <<>>
    /\ advanced_filters.has_similar_apps # "Todos"
    /\ Len(df_final.rows) < Len(fm_df.rows)
    /\ df_final.rows # <<>>

\* the elements of a sequence
Range(seq) == {seq[i] : i \in 1..Len(seq)}

\* the lower-cased summary holds no keyword of any category
NoKeyword(ideia) ==
    \A k \in 1..Len(category_keywords) :
        \A w \in 1..Len(category_keywords[k].keywords) :
            ~Contains(ideia, category_keywords[k].keywords[w])

\* the frame the last aggregation query ran on
QueriedFrame == IF shown.on = "view" THEN df_final ELSE dp_df

\* C10: get_categories_analysis returns the ten category keys; every row's
\* summary is in exactly one bucket; each bucket lists, in view order, the
\* summaries of the rows it holds, so the buckets together have one entry per
\* row; a summary without any keyword is in 'Utilitários'.
C10_CategoriesPartition ==
    shown.query = "get_categories_analysis" =>
        LET df == QueriedFrame
            out == shown.out
            n == Len(df.rows)
            summary(i) == df.rows[i]["ideia_resumo"]
            bucketsOf(i) == {c \in DOMAIN out : summary(i) \in Range(out[c])}
        IN  /\ shown.exc = ""
            /\ DOMAIN out = Range(CategoryNames)
            /\ Cardinality(DOMAIN out) = 10
            /\ \A i \in 1..n : Cardinality(bucketsOf(i)) = 1
            /\ \A c \in DOMAIN out :
                  LET idx == KeptIndices([i \in 1..n |-> c \in bucketsOf(i)], 1)
                  IN  out[c] = [k \in 1..Len(idx) |-> summary(idx[k])]
            /\ \A i \in 1..n :
                  NoKeyword(Lower(summary(i))) => summary(i) \in Range(out["Utilitários"])

\* C10 witness: a view of two rows was categorised, one summary with keywords
\* of two categories and one with none.
C10_Witness ==
    /\ shown.query = "get_categories_analysis"
    /\ shown.on = "view"
    /\ Len(df_final.rows) = 2
    /\ shown.out["Utilitários"] # <<>>
    /\ \E i \in 1..2 :
          Len(MatchingPositions(Lower(df_final.rows[i]["ideia_resumo"]))) >= 2

\* the priority order of the keyword categories
PriorityOrder ==
    <<"Redes Sociais", "Educação", "Jogos", "E-commerce", "Saúde/Bem-estar",
      "Entretenimento", "Produtividade", "Transporte/Localização", "Finanças">>

\* the positions of PriorityOrder whose category has a keyword in the text
PrioritiesIn(ideia) ==
    {p \in 1..Len(PriorityOrder) :
        \E k \in 1..Len(category_keywords) :
            /\ category_keywords[k].category = PriorityOrder[p]
            /\ AnyKeyword(ideia, category_keywords[k].keywords)}

\* how many entries of a sequence equal x
Occurrences(seq, x) == Cardinality({i \in 1..Len(seq) : seq[i] = x})

\* C11: a summary with keywords of one or more categories is listed under the
\* category earliest in the priority order among them, however many keywords
\* of a later category it holds; and the rows with one and the same summary
\* are all listed under the same single category.
C11_FirstMatchWins ==
    shown.query = "get_categories_analysis" =>
        \A i \in 1..Len(QueriedFrame.rows) :
            \A s \in {QueriedFrame.rows[i]["ideia_resumo"]} :
                \A ps \in {PrioritiesIn(Lower(s))} :
                    /\ \A p \in ps :
                          (\A q \in ps : p <= q) =>
                              s \in Range(shown.out[PriorityOrder[p]])
                    /\ \A c \in DOMAIN shown.out :
                          Occurrences(shown.out[c], s) \in
                              {0, Cardinality({j \in 1..Len(QueriedFrame.rows) :
                                     QueriedFrame.rows[j]["ideia_resumo"] = s})}

\* C11 witness: two rows with the same summary were categorised, the summary
\* holding one keyword of an earlier category and two of a later one.
C11_Witness ==
    /\ shown.query = "get_categories_analysis"
    /\ Len(QueriedFrame.rows) = 2
    /\ QueriedFrame.rows[1]["ideia_resumo"] = QueriedFrame.rows[2]["ideia_resumo"]
    /\ Cardinality(PrioritiesIn(Lower(QueriedFrame.rows[1]["ideia_resumo"]))) = 2
    /\ Len(shown.out["Redes Sociais"]) = 2
    /\ KeywordCount(Lower(QueriedFrame.rows[1]["ideia_resumo"]),
                    category_keywords[3].keywords) = 2

\* C12: with no other criterion active, apply_filters raises nothing and keeps
\* exactly the records whose lower-cased summary contains the lower-cased
\* search text as a substring, whatever characters the text is made of; the
\* empty text keeps every record.
C12_SearchIsLiteralSubstring ==
    (/\ pc = "filtered"
     /\ filters.complexidade = "Todos"
     /\ filters.recursos = <<>>
     /\ filters.com_alertas = "Todos") =>
        /\ ~raised
        /\ df_filtered.rows =
              BoolIndex(fm_df, [i \in 1..Len(fm_df.rows) |->
                                   Contains(Lower(fm_df.rows[i]["ideia_resumo"]),
                                            Lower(filters.busca_texto))]).rows

(***************************************************************************)
(* The six filtering steps in free order (SpecOrder): a pass starts from a *)
(* copy of FilterManager.df and applies each step once, in any order       *)
(***************************************************************************)
FilterSteps ==
    {"complexidade", "recursos", "alertas", "busca", "num_features", "similar_apps"}

\* every order of the features of a 'recursos' list
Orderings(recursos) ==
    {p \in [1..Len(recursos) -> {recursos[i] : i \in 1..Len(recursos)}] :
        \A i \in 1..Len(recursos) : \E j \in 1..Len(recursos) : p[j] = recursos[i]}

\* apply_advanced_filters, the feature-count step as a whole: the column is
\* set, the rows are selected, the column is dropped
StepNumFeatures(df, a) ==
    IF \E k \in 1..Len(rn_features) : rn_features[k] \notin df.columns
    THEN Raise("KeyError", df)
    ELSE LET s == FilterNumFeatures(WithNumFeatures(df), a)
         IN  IF s.exc # "" THEN s ELSE Ok(DropColumn(s.df, "num_features"))

\* one filtering step on the working view df: [exc, df]
StepOf(step, self_df, df, f, a, recursos) ==
    CASE step = "complexidade" -> FilterComplexidade(self_df, df, f)
      [] step = "recursos"     -> FilterRecursos(self_df, df, recursos)
      [] step = "alertas"      -> FilterAlertas(self_df, df, f)
      [] step = "busca"        -> FilterBusca(self_df, df, f)
      [] step = "num_features" -> StepNumFeatures(df, a)
      [] step = "similar_apps" -> FilterSimilarApps(df, a)

OrderFilterChoices ==
    [complexidade : {"Todos", "Alta"},
     recursos : {<<"RN_camera">>, <<"RN_camera", "RN_maps">>},
     com_alertas : {"Apenas com alertas"},
     busca_texto : {"rede", "(", "de"}]

OrderAdvancedChoices ==
    { [min_features |-> 0, max_features |-> 5, has_similar_apps |-> "Sem apps semelhantes"],
      [min_features |-> 2, max_features |-> 3, has_similar_apps |-> "Com apps semelhantes"] }

\* the pass starts: df_filtered = self.df.copy()
StartPass ==
    /\ pc = "ready"
    /\ \E f \in OrderFilterChoices, a \in OrderAdvancedChoices :
          /\ filters' = f
          /\ advanced_filters' = a
    /\ df_filtered' = CopyForFilters(fm_df).frame
    /\ todo' = [left |-> FilterSteps, last |-> ""]
    /\ raised' = FALSE
    /\ pc' = "pass"
    /\ UNCHANGED <<csv_path, source, dp_df, errors, fm_df, df_final, shown, fresh,
                   reruns>>

\* one step of the pass; an exception ends the pass
TakeStep(step, recursos) ==
    /\ pc = "pass"
    /\ ~raised
    /\ step \in todo.left
    /\ LET res == StepOf(step, fm_df, df_filtered, filters, advanced_filters, recursos)
       IN  /\ raised' = (res.exc # "")
           /\ df_filtered' = IF res.exc # "" THEN EmptyFrame ELSE res.df
    /\ todo' = [left |-> todo.left \ {step}, last |-> step]
    /\ UNCHANGED <<pc, csv_path, source, dp_df, errors, fm_df, filters,
                   advanced_filters, df_final, shown, fresh, reruns>>

TakeComplexidade == TakeStep("complexidade", filters.recursos)

TakeRecursos == \E r \in Orderings(filters.recursos) : TakeStep("recursos", r)

TakeAlertas == TakeStep("alertas", filters.recursos)

TakeBusca == TakeStep("busca", filters.recursos)

TakeNumFeatures == TakeStep("num_features", filters.recursos)

TakeSimilarApps == TakeStep("similar_apps", filters.recursos)

NextOrder ==
    \/ Construct
    \/ NewFilterManager
    \/ StartPass
    \/ TakeComplexidade
    \/ TakeRecursos
    \/ TakeAlertas
    \/ TakeBusca
    \/ TakeNumFeatures
    \/ TakeSimilarApps

SpecOrder == Init /\ [][NextOrder]_vars

(***************************************************************************)
(* Claims about the order of the steps (SpecOrder)                         *)
(***************************************************************************)
\* apply_filters then apply_advanced_filters on the base frame: [exc, df]
ViewOf(base, f, a) ==
    LET r1 == ApplyFilters(base, f)
    IN  IF r1.exc # "" THEN Raise(r1.exc, EmptyFrame)
        ELSE LET r2 == ApplyAdvancedFilters(r1.df, a)
             IN  IF r2.exc # "" THEN Raise(r2.exc, EmptyFrame) ELSE Ok(r2.df)

\* the reference sequence on FilterManager.df with the criteria of the pass
ReferenceView == ViewOf(fm_df, filters, advanced_filters)

\* C8: a pass that has applied the six steps in whatever order, the features
\* of 'recursos' in whatever order, ends with the rows, in the order, that
\* apply_filters then apply_advanced_filters return for the same criteria; a
\* pass ends with an exception exactly when that reference sequence raises.
C8_OrderIrrelevant ==
    (pc = "pass" /\ (raised \/ todo.left = {})) =>
        IF raised THEN ReferenceView.exc # ""
        ELSE ReferenceView.exc = "" /\ df_filtered = ReferenceView.df

\* a completed pass that applied the complexity step, the first of the
\* reference sequence, last, with every criterion active, on a table from
\* which the criteria keep some rows and drop others
C8_Witness ==
    /\ pc = "pass"
    /\ ~raised
    /\ todo = [left |-> {}, last |-> "complexidade"]
    /\ filters.complexidade = "Alta"
    /\ Len(filters.recursos) = 2
    /\ advanced_filters.min_features = 2
    /\ df_filtered.rows # <<>>
    /\ Len(df_filtered.rows) < Len(fm_df.rows)

(***************************************************************************)
(* DataProcessor: the feature usage query                                  *)
(***************************************************************************)
\* the upper-case letter of each lower-case letter
UpperMap ==
    [c \in {Char(LowerChars, i) : i \in 1..Len(LowerChars)} |->
        Char(UpperChars, CHOOSE i \in 1..Len(LowerChars) : Char(LowerChars, i) = c)]

UpperChar(c) == IF c \in DOMAIN UpperMap THEN UpperMap[c] ELSE c

\* a character with an upper and a lower case
IsCased(c) == c \in DOMAIN UpperMap \/ c \in DOMAIN LowerMap

\* str.replace(old, new), old not empty
RECURSIVE Replace(_, _, _)
Replace(s, old, new) ==
    IF Len(s) < Len(old) THEN s
    ELSE IF SubSeq(s, 1, Len(old)) = old
    THEN new \o Replace(SubSeq(s, Len(old) + 1, Len(s)), old, new)
    ELSE Char(s, 1) \o Replace(Tail(s), old, new)

\* str.title() from character i on: a cased character is upper-cased after an
\* uncased one (or at the start) and lower-cased after a cased one
RECURSIVE TitleFrom(_, _)
TitleFrom(s, i) ==
    IF i > Len(s) THEN ""
    ELSE (IF i > 1 /\ IsCased(Char(s, i - 1))
          THEN LowerChar(Char(s, i)) ELSE UpperChar(Char(s, i)))
         \o TitleFrom(s, i + 1)

Title(s) == TitleFrom(s, 1)

\* feature.replace('RN_', '').title()
FeatureName(feature) == Title(Replace(feature, "RN_", ""))

\* the usage counts with the flag compared without regard to case
GetRnFeaturesUsageAnyCase(df) ==
    [exc |-> "",
     out |-> [name \in {FeatureName(rn_features[k]) : k \in 1..Len(rn_features)} |->
                 LET feature == CHOOSE f \in {rn_features[k] : k \in 1..Len(rn_features)} :
                                    FeatureName(f) = name
                 IN  Cardinality({i \in 1..Len(df.rows) :
                                     Lower(df.rows[i][feature]) = "sim"})]]

\* get_rn_features_usage on self.df = df: [exc, out]
GetRnFeaturesUsage(df) ==
    IF \E k \in 1..Len(rn_features) : rn_features[k] \notin df.columns
    THEN [exc |-> "KeyError", out |-> <<>>]
    ELSE [exc |-> "",
          out |-> [name \in {FeatureName(rn_features[k]) : k \in 1..Len(rn_features)} |->
                      LET feature == CHOOSE f \in {rn_features[k] : k \in 1..Len(rn_features)} :
                                         FeatureName(f) = name
                      IN  Cardinality({i \in 1..Len(df.rows) : df.rows[i][feature] = "Sim"})]]

(***************************************************************************)
(* main(): the script, run again from its first line on every interaction  *)
(* (SpecMain)                                                              *)
(***************************************************************************)
MaxReruns == 2

MainSources == FilterSources \cup {MissingSource}

MainFilterChoices ==
    [complexidade : {"Todos", "Alta"},
     recursos : {<<>>, <<"RN_camera">>},
     com_alertas : {"Todos"},
     busca_texto : {"", "rede", "("}]

MainAdvancedChoices ==
    { NoAdvancedFilters,
      [min_features |-> 2, max_features |-> 3, has_similar_apps |-> "Todos"],
      [min_features |-> 0, max_features |-> 5, has_similar_apps |-> "Com apps semelhantes"] }

InitMain == \E src \in MainSources : NothingBuilt(CsvPath, src)

\* complexity_options: 'Todos' and the levels present in FilterManager.df
ComplexityOptions(df) ==
    {"Todos"} \cup {df.rows[i]["Complexidade"] : i \in 1..Len(df.rows)}

\* what the sidebar widgets can return: a level among the options, the checked
\* features in the order of rn_features, one of the three alert options
SidebarOffers(df, f) ==
    /\ f.complexidade \in ComplexityOptions(df)
    /\ \A i \in 1..Len(f.recursos) :
          \E k \in 1..Len(rn_features) : rn_features[k] = f.recursos[i]
    /\ \A i, j \in 1..Len(f.recursos) :
          i < j => \E k, l \in 1..Len(rn_features) :
                      k < l /\ rn_features[k] = f.recursos[i]
                            /\ rn_features[l] = f.recursos[j]
    /\ f.com_alertas \in {"Todos", "Apenas com alertas", "Apenas sem alertas"}

\* what the expander widgets can return: a range within 0..5, one of three options
ExpanderOffers(a) ==
    /\ 0 <= a.min_features
    /\ a.min_features <= a.max_features
    /\ a.max_features <= 5
    /\ a.has_similar_apps \in {"Todos", "Com apps semelhantes", "Sem apps semelhantes"}

\* display_filter_summary(df_original, df_filtered): the st.info and the
\* st.warning it makes
FilterSummary(df_original, view) ==
    [showing |-> IF Len(view.rows) < Len(df_original.rows)
                 THEN <<Len(view.rows), Len(df_original.rows)>> ELSE <<>>,
     none_found |-> (Len(view.rows) = 0)]

\* Series.value_counts(): the count of every value present
ValueCounts(df, col) ==
    [v \in {df.rows[i][col] : i \in 1..Len(df.rows)} |->
        Cardinality({i \in 1..Len(df.rows) : df.rows[i][col] = v})]

\* the (category, count) pairs of the categories holding n summaries, in the
\* order of the dict
CardsWithCount(categories, n) ==
    LET at == KeptIndices([k \in 1..Len(CategoryNames) |->
                              Len(categories[CategoryNames[k]]) = n], 1)
    IN  [k \in 1..Len(at) |-> <<CategoryNames[at[k]], n>>]

\* sorted(..., key=count, reverse=True) over the non-empty categories: from
\* count n down, ties in the order of the dict
RECURSIVE SortedCards(_, _)
SortedCards(categories, n) ==
    IF n = 0 THEN <<>>
    ELSE CardsWithCount(categories, n) \o SortedCards(categories, n - 1)

\* top = sorted_items[:6]
TopSix(sorted_items) ==
    SubSeq(sorted_items, 1, IF Len(sorted_items) < 6 THEN Len(sorted_items) ELSE 6)

\* display_category_summary_cards: the six most numerous categories
CategorySummaryCards(df) ==
    CHOOSE top \in {TopSix(SortedCards(categories, Len(df.rows))) :
                       categories \in {GetCategoriesAnalysis(df).out}} : TRUE

\* the tab's processor keeping the frame it loaded
ProcessorNotReplaced(loaded, view) == loaded

\* processor_filtered = DataProcessor(...); processor_filtered.df = df_filtered
ProcessorFiltered(loaded, view) == view

\* the overview cards computed from the view of the run
OverviewProcessorFiltered(processor_df, view) == view

\* display_metrics_cards(data_processor), display_category_summary_cards(
\* data_processor): the frame the overview cards are computed from
OverviewProcessor(processor_df, view) == GetDataframe(processor_df)

\* display_metrics_cards, the cards after 'Total de Ideias': the mean of the
\* per-row feature counts as f"{avg_features:.1f}" prints it, in tenths (no
\* mean of up to three rows lies halfway between two tenths; halfway, the even
\* tenth is taken); the rows of complexity 'Alta' or 'Média-Alta'; the rows
\* with a non-empty alert text
MetricsCards(df) ==
    LET n == Len(df.rows)
        total == CountSimSum(df, 1)
        down == (10 * total) \div n
        twice == 2 * ((10 * total) % n)
    IN  [avg_features |->
             IF n = 0 THEN "nan"
             ELSE IF twice < n THEN down
             ELSE IF twice > n THEN down + 1
             ELSE IF down % 2 = 0 THEN down ELSE down + 1,
         high_complexity |->
             Cardinality({i \in 1..n : df.rows[i]["Complexidade"] \in {"Alta", "Média-Alta"}}),
         ethical_alerts |->
             Cardinality({i \in 1..n : df.rows[i]["Alertas_etico_legais"] # ""})]

\* _display_features_chart(viz_manager, df_filtered): the usage of a processor
\* holding the view, drawn when some count is not 0
FeaturesChart(view) ==
    LET features_data == GetRnFeaturesUsage(view).out
    IN  [data |-> features_data,
         drawn |-> \E name \in DOMAIN features_data : features_data[name] # 0]

\* what the tabs show: the overview cards from data_processor, the complexity
\* and feature charts and the categories tab from the view
TabsShow(processor_df, loaded, view) ==
    [summary |-> FilterSummary(processor_df, view),
     total_ideias |-> Len(OverviewProcessor(processor_df, view).rows),
     metrics |-> MetricsCards(OverviewProcessor(processor_df, view)),
     category_cards |-> CategorySummaryCards(OverviewProcessor(processor_df, view)),
     complexity_chart |-> ValueCounts(view, "Complexidade"),
     features_chart |-> FeaturesChart(view),
     categories |-> GetCategoriesAnalysis(ProcessorFiltered(loaded, view)).out]

\* if data_processor.df.empty: st.error(...); return
MainEmptyReturn ==
    /\ pc = "loaded"
    /\ IsEmpty(dp_df)
    /\ errors' = Append(errors, "Nao foi possivel carregar os dados")
    /\ pc' = "returned"
    /\ UNCHANGED <<csv_path, source, dp_df, fm_df, filters, advanced_filters,
                   df_filtered, df_final, shown, fresh, todo, reruns, raised>>

\* a FilterManager created whatever the Dataset holds
FilterManagerOnAnyDataset == NewFilterManager

\* filter_manager = FilterManager(data_processor), past the empty check
MainNewFilterManager ==
    /\ ~IsEmpty(dp_df)
    /\ NewFilterManager

\* filters = create_sidebar_filters(); df_filtered = apply_filters(filters)
MainApplyFilters ==
    \E f \in MainFilterChoices : SidebarOffers(fm_df, f) /\ DoApplyFilters(f)

\* advanced_filters = get_advanced_filters();
\* df_filtered = apply_advanced_filters(df_filtered, advanced_filters)
MainApplyAdvanced ==
    \E a \in MainAdvancedChoices : ExpanderOffers(a) /\ DoApplyAdvanced(a)

\* the tabs once the categories tab has loaded its processor: [reports, exc, out]
TabsAfterLoad(processor_df, loaded, view) ==
    [reports |-> loaded.reports,
     exc |-> GetCategoriesAnalysis(ProcessorFiltered(loaded.df, view)).exc,
     out |-> TabsShow(processor_df, loaded.df, view)]

\* the page the tabs leave: [errors, raised, shown]
PageOf(tabs) ==
    [errors |-> errors \o tabs.reports,
     raised |-> (tabs.exc # ""),
     shown |-> [query |-> "main", on |-> "view", exc |-> tabs.exc, out |-> tabs.out]]

\* display_filter_summary and the tabs, on the view of this run
MainTabs ==
    /\ pc = "final"
    /\ ~raised
    /\ \E page \in {PageOf(TabsAfterLoad(dp_df, LoadData(csv_path, source), df_final))} :
          /\ errors' = page.errors
          /\ raised' = page.raised
          /\ shown' = page.shown
    /\ pc' = "rendered"
    /\ UNCHANGED <<csv_path, source, dp_df, fm_df, filters, advanced_filters,
                   df_filtered, df_final, fresh, todo, reruns>>

\* except Exception as e: st.error(...)
MainExcept ==
    /\ pc \in {"filtered", "final", "rendered"}
    /\ raised
    /\ errors' = Append(errors, "Erro ao inicializar o dashboard")
    /\ raised' = FALSE
    /\ pc' = "returned"
    /\ UNCHANGED <<csv_path, source, dp_df, fm_df, filters, advanced_filters,
                   df_filtered, df_final, shown, fresh, todo, reruns>>

\* an interaction: the script runs again, none of its objects is kept
Rerun ==
    /\ pc \in {"returned", "rendered"}
    /\ reruns < MaxReruns
    /\ reruns' = reruns + 1
    /\ pc' = "new"
    /\ dp_df' = EmptyFrame
    /\ errors' = <<>>
    /\ fm_df' = EmptyFrame
    /\ filters' = NoFilters
    /\ advanced_filters' = NoAdvancedFilters
    /\ df_filtered' = EmptyFrame
    /\ df_final' = EmptyFrame
    /\ shown' = NothingShown
    /\ fresh' = TRUE
    /\ raised' = FALSE
    /\ UNCHANGED <<csv_path, source, todo>>

NextMain ==
    \/ Construct
    \/ MainEmptyReturn
    \/ MainNewFilterManager
    \/ MainApplyFilters
    \/ MainApplyAdvanced
    \/ MainTabs
    \/ MainExcept
    \/ Rerun

SpecMain == InitMain /\ [][NextMain]_vars

(***************************************************************************)
(* Claims about the runs of main (SpecMain)                                *)
(***************************************************************************)
\* the normalized Dataset of the source
NormalizedDataset == LoadData(csv_path, source).df

\* the frame is the view computed from the base frame with the current
\* criteria, and what the tabs compute from a view they computed from it
ShowsViewOf(base, view) ==
    /\ view.exc = ""
    /\ df_final = view.df
    /\ shown.out.summary = FilterSummary(base, view.df)
    /\ shown.out.complexity_chart = ValueCounts(view.df, "Complexidade")
    /\ shown.out.categories = GetCategoriesAnalysis(view.df).out

\* the overview's total card and category summary cards are those of the frame
CardsAreOf(df) ==
    /\ shown.out.total_ideias = Len(df.rows)
    /\ shown.out.category_cards = CategorySummaryCards(df)

\* C9 as stated: after any number of earlier runs, the view of the current
\* run is the one computed from the normalized Dataset with the current
\* criteria alone, and every aggregation result shown is that of the view.
C9_EveryShownResultIsOfTheView ==
    (pc = "rendered" /\ ~raised) =>
        \A base \in {NormalizedDataset} :
            \A view \in {ViewOf(base, filters, advanced_filters)} :
                ShowsViewOf(base, view) /\ CardsAreOf(view.df)

\* C9: after any number of earlier runs, the view of the current run is the
\* one computed from the normalized Dataset with the current criteria alone;
\* the filter summary, the complexity chart and the categories tab are those
\* of that view, and the overview's total and category summary cards are
\* those of the whole normalized Dataset.
C9_ViewRecomputedEachRun ==
    (pc = "rendered" /\ ~raised) =>
        \A base \in {NormalizedDataset} :
            \A view \in {ViewOf(base, filters, advanced_filters)} :
                ShowsViewOf(base, view) /\ CardsAreOf(base)

\* a run after two earlier ones, whose criteria keep some rows and drop others
C9_Witness ==
    /\ pc = "rendered"
    /\ ~raised
    /\ reruns = MaxReruns
    /\ filters # NoFilters
    /\ df_final.rows # <<>>
    /\ Len(df_final.rows) < Len(dp_df.rows)

\* the columns and every row's fields of `out` are the columns of `view`
SameSchema(view, out) ==
    /\ out.columns = view.columns
    /\ DOMAIN out.dtypes = view.columns
    /\ \A i \in 1..Len(out.rows) : DOMAIN out.rows[i] = view.columns

\* C15: the view returned by apply_advanced_filters has exactly the columns of
\* the view passed in, and no num_features column, whatever the criteria and
\* also when no row is left.
C15_NumFeaturesEphemeral ==
    [][(pc # "final" /\ pc' = "final" /\ ~raised') =>
          /\ pc \in {"filtered", "ready"}
          /\ "num_features" \notin df_final'.columns
          /\ pc = "filtered" => SameSchema(df_filtered, df_final')
          /\ pc = "ready" => SameSchema(fm_df, df_final')]_vars

\* C15 witness: apply_advanced_filters returned a view without rows, with the
\* columns of the non-empty view passed in.
C15_Witness ==
    /\ pc = "final"
    /\ ~raised
    /\ Len(df_filtered.rows) > 0
    /\ df_final.rows = <<>>
    /\ df_final.columns = df_filtered.columns
    /\ "RN_camera" \in df_final.columns
    /\ "num_features" \notin df_final.columns

\* C22: apply_filters and apply_advanced_filters never raise and return a view
\* with the columns of their input, for every Dataset with the columns of the
\* schema and every criteria, a search text of any characters included.
C22_FiltersAreTotal ==
    /\ pc = "filtered" => (~raised /\ SameSchema(fm_df, df_filtered))
    /\ pc = "final" =>
          /\ ~raised
          /\ SameSchema(fm_df, df_final)

\* C22, the part that holds: a call raises only in apply_filters, on a search
\* text that is no regular expression; every other call returns a view with
\* the columns of its input
C22_RaisesOnlyOnSearchText ==
    /\ raised => (pc = "filtered" /\ ~RegexCompiles(filters.busca_texto))
    /\ (pc \in {"filtered", "final"} /\ ~raised) =>
          SameSchema(fm_df, IF pc = "filtered" THEN df_filtered ELSE df_final)

\* nothing of a session beyond the DataProcessor exists
NothingBeyondLoad ==
    /\ fm_df = EmptyFrame
    /\ filters = NoFilters
    /\ advanced_filters = NoAdvancedFilters
    /\ df_filtered = EmptyFrame
    /\ df_final = EmptyFrame
    /\ shown = NothingShown
    /\ ~raised

EmptyDatasetMessage == "Nao foi possivel carregar os dados"

\* C23: when the Dataset is empty after the DataProcessor is constructed, the
\* next thing main does is report an error and return, and in that run there
\* is no FilterManager, no filter call and no tab; a FilterManager, a filter
\* call or a tab exists only in a run whose Dataset is not empty.
C23_EmptyDatasetIsTerminal ==
    /\ [](IsEmpty(dp_df) => (pc \in {"new", "loaded", "returned"} /\ NothingBeyondLoad))
    /\ []((pc = "returned" /\ IsEmpty(dp_df)) =>
             (errors # <<>> /\ errors[Len(errors)] = EmptyDatasetMessage))
    /\ [][(pc = "loaded" /\ IsEmpty(dp_df)) =>
             (pc' = "returned" /\ errors' = Append(errors, EmptyDatasetMessage))]_vars
    /\ [](pc \in {"ready", "filtered", "final", "rendered"} => dp_df.rows # <<>>)

\* C23 witness: main returned on the empty Dataset of a file that was not
\* found, with the loader's report and its own, and nothing else built.
C23_Witness ==
    /\ pc = "returned"
    /\ source.kind = "missing"
    /\ IsEmpty(dp_df)
    /\ Len(errors) >= 2
    /\ errors[Len(errors)] = EmptyDatasetMessage
    /\ NothingBeyondLoad

(***************************************************************************)
(* DataProcessor: the counting queries                                     *)
(***************************************************************************)
\* get_complexity_distribution on self.df = df: [exc, out]
GetComplexityDistribution(df) ==
    IF "Complexidade" \notin df.columns THEN [exc |-> "KeyError", out |-> <<>>]
    ELSE [exc |-> "", out |-> ValueCounts(DropNa(df, "Complexidade"), "Complexidade")]

\* all_x = []; for x_list in self.df[col]: all_x.extend(x_list), from row i on
RECURSIVE ExtendFrom(_, _, _)
ExtendFrom(df, col, i) ==
    IF i > Len(df.rows) THEN <<>>
    ELSE df.rows[i][col] \o ExtendFrom(df, col, i + 1)

\* pd.Series(values).value_counts() as a mapping
CountsOf(values) ==
    [v \in {values[i] : i \in 1..Len(values)} |->
        Cardinality({i \in 1..Len(values) : values[i] = v})]

\* if not all_alerts: return {}; else the value counts as a dict
AlertsCountOf(all_alerts) ==
    IF all_alerts = <<>> THEN <<>> ELSE CountsOf(all_alerts)

\* get_ethical_alerts_count on self.df = df: [exc, out]
GetEthicalAlertsCount(df) ==
    IF "alertas_lista" \notin df.columns THEN [exc |-> "KeyError", out |-> <<>>]
    ELSE [exc |-> "", out |-> AlertsCountOf(ExtendFrom(df, "alertas_lista", 1))]

\* the orders the values counted n times can come in: value_counts sorts by
\* count and promises no order among equal counts
TieOrders(counts, n) ==
    LET tied == {v \in DOMAIN counts : counts[v] = n}
        k == Cardinality(tied)
    IN  {[i \in 1..k |-> <<p[i], n>>] :
            p \in {q \in [1..k -> tied] : \A v \in tied : \E i \in 1..k : q[i] = v}}

\* the (value, count) sequences value_counts can return for the counts from n
\* down: descending by count
RECURSIVE CountOrders(_, _)
CountOrders(counts, n) ==
    IF n = 0 THEN {<<>>}
    ELSE {a \o b : a \in TieOrders(counts, n), b \in CountOrders(counts, n - 1)}

HeadCount == 10

\* Series.head(n)
HeadOf(seq, n) == SubSeq(seq, 1, IF Len(seq) < n THEN Len(seq) ELSE n)

\* the head of the counts in ascending order: the ten least counted
TopAppsAscending(apps_count) ==
    HeadOf([i \in 1..Len(apps_count) |-> apps_count[Len(apps_count) + 1 - i]], HeadCount)

\* apps_count.head(10).to_dict(): the dict's items in order
TopApps(apps_count) == HeadOf(apps_count, HeadCount)

\* get_apps_semelhantes_count on self.df = df: the results it can return
GetAppsSemelhantesCount(df) ==
    IF "apps_semelhantes_lista" \notin df.columns THEN {[exc |-> "KeyError", out |-> <<>>]}
    ELSE UNION {{[exc |-> "", out |-> TopApps(apps_count)] :
                    apps_count \in UNION {CountOrders(counts, Len(all_apps)) :
                                             counts \in {CountsOf(all_apps)}}} :
                all_apps \in {ExtendFrom(df, "apps_semelhantes_lista", 1)}}

\* the label cut for a summary of 50 characters already
IdeiaLabelCutAtFifty(ideia_resumo) ==
    IF Len(ideia_resumo) >= 50 THEN SubSeq(ideia_resumo, 1, 50) \o "..."
    ELSE ideia_resumo

\* row['ideia_resumo'][:50] + '...' if len(row['ideia_resumo']) > 50 else
\* row['ideia_resumo']
IdeiaLabel(ideia_resumo) ==
    IF Len(ideia_resumo) > 50 THEN SubSeq(ideia_resumo, 1, 50) \o "..."
    ELSE ideia_resumo

\* the dict appended for one row by get_complexity_vs_features
ComplexityVsFeaturesRow(row) ==
    [ideia |-> IdeiaLabel(row["ideia_resumo"]),
     complexidade |-> row["Complexidade"],
     recursos_necessarios |-> CountSim(row, Len(rn_features)),
     tem_alertas |-> Len(row["alertas_lista"]) > 0]

\* get_complexity_vs_features on self.df = df: [exc, out], out the rows of the
\* frame returned; the loop body reads the columns, so a frame without rows
\* needs none of them
GetComplexityVsFeatures(df) ==
    IF /\ df.rows # <<>>
       /\ ~({rn_features[k] : k \in 1..Len(rn_features)}
               \cup {"ideia_resumo", "Complexidade", "alertas_lista"} \subseteq df.columns)
    THEN [exc |-> "KeyError", out |-> <<>>]
    ELSE [exc |-> "", out |-> [i \in 1..Len(df.rows) |-> ComplexityVsFeaturesRow(df.rows[i])]]

(***************************************************************************)
(* Records and counting queries (SpecQuery): a Dataset is loaded, one      *)
(* presence or range filter is applied or none, and the counting queries   *)
(* run on the frame at hand                                                *)
(***************************************************************************)
MaxQueryRows == 2

\* a source line whose first n features are 'Sim'
CountLine(summary, n, cx) ==
    [ideia_resumo |-> summary, apps_semelhantes |-> "", Complexidade |-> cx,
     Alertas_etico_legais |-> ""]
    @@ [c \in {rn_features[k] : k \in 1..Len(rn_features)} |->
           IF \E k \in 1..n : rn_features[k] = c THEN "Sim" ELSE "Não"]

QueryLines ==
    { SourceRow("Rede social para pets", "Instagram; Tinder",
                "Sim", "Sim", "Não", "nao", "", "Média",
                "LGPD (dados pessoais/sensíveis)"),
      SourceRow("Lista de compras", "",
                "sim", "Não", "Não", "Não", "Não", "", ""),
      SourceRow("App de caronas", " Uber ;99 ; Uber",
                "Sim", "Sim", "Sim", "Sim", "Sim", "Alta",
                "LGPD (dados pessoais/sensíveis); Coleta de localização ;"),
      SourceRow("Agenda de estudos", " ",
                "Não", "Sim", "Sim", "Sim", "Não", "Baixa", ";") }

\* six records with feature counts 0, 1, 2, 3, 4, 5
CountsTable ==
    [n \in 1..6 |-> CountLine("App de caronas", n - 1, "Alta")]

\* one record naming eleven apps: one six times, then two each five, four,
\* three and two times and once
ManyAppsTable ==
    << SourceRow("Rede social para pets",
                 "A;A;A;A;A;A;B;C;B;C;B;C;B;C;B;C;D;E;D;E;D;E;D;E;F;G;F;G;F;G;H;I;H;I;J;K",
                 "Sim", "Sim", "Não", "Não", "Não", "Média", "") >>

\* three records with summaries of 50, 51 and 74 characters
LongSummariesTable ==
    << SourceRow("Aplicativo de trocas de livros usados entre alunos", "",
                 "Sim", "Não", "Não", "Não", "Não", "Baixa", ""),
       SourceRow("Aplicativo de trocas de livros usados entre colegas", "Skoob",
                 "sim", "Sim", "Sim", "Não", "Não", "", " "),
       SourceRow("Plataforma de monitoria entre alunos com agenda e avaliações dos monitores",
                 "", "Sim", "Sim", "Sim", "Sim", "Sim", "Média-Alta",
                 "LGPD (dados pessoais/sensíveis)") >>

\* four records, each with a keyword that holds a keyword of an earlier place
\* of category_keywords; the first with empty and blank pieces in its lists
CoveredKeywordsTable ==
    << Nao5("Cassino social com amigos", "Zynga;;PokerStars;", "Média", "; ;"),
       Nao5("Educação financeira para jovens", "", "Baixa", ""),
       Nao5("Minha rotina diária", "", "Baixa", ""),
       Nao5("Guia de eventos da cidade", "", "Média", "") >>

QuerySources ==
    {CsvSource(AllColumns, lines) :
        lines \in Tables(QueryLines, MaxQueryRows)
                    \cup {CountsTable, ManyAppsTable, LongSummariesTable,
                          CoveredKeywordsTable}}

InitQuery == \E src \in QuerySources : NothingBuilt(CsvPath, src)

PresenceChoices ==
    {[NoFilters EXCEPT !.com_alertas = o] :
        o \in {"Apenas com alertas", "Apenas sem alertas"}}

QueryAdvancedChoices ==
    {[NoAdvancedFilters EXCEPT !.has_similar_apps = o] :
        o \in {"Com apps semelhantes", "Sem apps semelhantes"}}
    \cup {[NoAdvancedFilters EXCEPT !.min_features = r[1], !.max_features = r[2]] :
             r \in {<<2, 3>>, <<3, 2>>, <<0, 0>>}}

\* apply_filters with an alert option
AlertsFilterCall == \E f \in PresenceChoices : DoApplyFilters(f)

\* apply_advanced_filters with a similar-apps option or a range
AdvancedFilterCall == \E a \in QueryAdvancedChoices : DoApplyAdvancedOnBase(a)

\* the frame a query runs on: the Dataset, or the view of the filter call made
QueryFrame ==
    IF pc = "filtered" THEN df_filtered
    ELSE IF pc = "final" THEN df_final
    ELSE dp_df

\* a DataProcessor whose df is the frame at hand answers one query
Answers(query, res) ==
    /\ pc \in {"ready", "filtered", "final"}
    /\ ~raised
    /\ shown' = [query |-> query, on |-> pc, exc |-> res.exc, out |-> res.out]
    /\ UNCHANGED <<pc, csv_path, source, dp_df, errors, fm_df, filters,
                   advanced_filters, df_filtered, df_final, fresh, todo, reruns,
                   raised>>

ComplexityDistributionQuery ==
    Answers("get_complexity_distribution", GetComplexityDistribution(QueryFrame))

RnFeaturesUsageQuery ==
    Answers("get_rn_features_usage", GetRnFeaturesUsage(QueryFrame))

EthicalAlertsCountQuery ==
    Answers("get_ethical_alerts_count", GetEthicalAlertsCount(QueryFrame))

AppsSemelhantesCountQuery ==
    \E res \in GetAppsSemelhantesCount(QueryFrame) :
        Answers("get_apps_semelhantes_count", res)

ComplexityVsFeaturesQuery ==
    Answers("get_complexity_vs_features", GetComplexityVsFeatures(QueryFrame))

CategoriesAnalysisQuery ==
    Answers("get_categories_analysis", GetCategoriesAnalysis(QueryFrame))

NextQuery ==
    \/ Construct
    \/ NewFilterManager
    \/ AlertsFilterCall
    \/ AdvancedFilterCall
    \/ ComplexityDistributionQuery
    \/ RnFeaturesUsageQuery
    \/ EthicalAlertsCountQuery
    \/ AppsSemelhantesCountQuery
    \/ ComplexityVsFeaturesQuery
    \/ CategoriesAnalysisQuery

SpecQuery == InitQuery /\ [][NextQuery]_vars

(***************************************************************************)
(* Queries on empty input (SpecEmpty): the same calls, over sources that   *)
(* cannot be loaded, have no record, or lose every record in cleaning, and *)
(* over sources with records whose views a filter may leave without rows   *)
(***************************************************************************)
\* a file with the header line only, and one whose only record is dropped
EmptyTables == {<<>>, <<Nao5("Sem ideia", "", "Baixa", "")>>}

EmptySources ==
    {MissingSource, UnreadableSource}
    \cup {CsvSource(AllColumns, lines) :
              lines \in EmptyTables \cup Tables(QueryLines, MaxQueryRows)}

InitEmpty ==
    \/ \E src \in EmptySources : NothingBuilt(CsvPath, src)
    \/ NothingBuilt("", MissingSource)

SpecEmpty == InitEmpty /\ [][NextQuery]_vars

(***************************************************************************)
(* Claims about records and counting queries (SpecQuery)                   *)
(***************************************************************************)
\* the rows of the frame whose list in column col is non-empty (with = TRUE)
\* or empty (with = FALSE)
RowsByList(df, col, with) ==
    BoolIndex(df, [i \in 1..Len(df.rows) |-> (Len(df.rows[i][col]) > 0) = with]).rows

\* C13: 'Apenas com alertas' / 'Apenas sem alertas' keep exactly the records
\* whose alertas_lista is non-empty / empty, and 'Com apps semelhantes' /
\* 'Sem apps semelhantes' exactly those whose apps_semelhantes_lista is
\* non-empty / empty, for every normalized record.
C13_PresenceByDerivedLists ==
    /\ (pc = "filtered" /\ filters.com_alertas # "Todos") =>
          /\ ~raised
          /\ df_filtered.rows =
                RowsByList(fm_df, "alertas_lista",
                           filters.com_alertas = "Apenas com alertas")
    /\ (pc = "final" /\ advanced_filters.has_similar_apps # "Todos") =>
          /\ ~raised
          /\ df_final.rows =
                RowsByList(fm_df, "apps_semelhantes_lista",
                           advanced_filters.has_similar_apps = "Com apps semelhantes")

\* C13 witness: 'Com apps semelhantes' kept a record whose raw field is
\* white space only, its list holding one empty name, and dropped another.
C13_Witness ==
    /\ pc = "final"
    /\ advanced_filters.has_similar_apps = "Com apps semelhantes"
    /\ Len(df_final.rows) = 1
    /\ Len(fm_df.rows) = 2
    /\ df_final.rows[1]["apps_semelhantes_lista"] = <<"">>

\* how many of the five RN_* flags of a record equal 'Sim'
AffirmativeFlags(row) ==
    Cardinality({k \in 1..Len(rn_features) : row[rn_features[k]] = "Sim"})

\* C14: with no similar-apps option, apply_advanced_filters keeps exactly the
\* records whose number of 'Sim' flags lies in the closed range
\* [min_features, max_features]; a range with min > max keeps none.
C14_RangeInclusive ==
    (pc = "final" /\ advanced_filters.has_similar_apps = "Todos") =>
        /\ ~raised
        /\ df_final.rows =
              BoolIndex(fm_df, [i \in 1..Len(fm_df.rows) |->
                  /\ advanced_filters.min_features <= AffirmativeFlags(fm_df.rows[i])
                  /\ AffirmativeFlags(fm_df.rows[i]) <= advanced_filters.max_features]).rows
        /\ advanced_filters.min_features > advanced_filters.max_features =>
              df_final.rows = <<>>

\* C14 witness: the range (2,3) on six records with counts 0..5 left the two
\* records with counts 2 and 3.
C14_Witness ==
    /\ pc = "final"
    /\ source.lines = CountsTable
    /\ advanced_filters.min_features = 2
    /\ advanced_filters.max_features = 3
    /\ Len(fm_df.rows) = 6
    /\ df_final.rows = <<fm_df.rows[3], fm_df.rows[4]>>
    /\ AffirmativeFlags(df_final.rows[1]) = 2
    /\ AffirmativeFlags(df_final.rows[2]) = 3

\* the positions of ';' in raw
Semicolons(raw) == {k \in 1..Len(raw) : Char(raw, k) = ";"}

\* the n-th smallest of the positions semis; 0 for n = 0, len + 1 after the last
SemicolonAt(semis, len, n) ==
    IF n = 0 THEN 0
    ELSE IF n > Cardinality(semis) THEN len + 1
    ELSE CHOOSE p \in semis : Cardinality({q \in semis : q <= p}) = n

\* s from its first to its last character that is not white space
Trimmed(s) ==
    LET inked == {k \in 1..Len(s) : ~IsSpace(Char(s, k))}
    IN  IF inked = {} THEN ""
        ELSE SubSeq(s, CHOOSE k \in inked : \A j \in inked : k <= j,
                       CHOOSE k \in inked : \A j \in inked : k >= j)

\* the texts of raw between consecutive positions of semis, trimmed, in order
PiecesBetween(raw, semis) ==
    [n \in 1..(Cardinality(semis) + 1) |->
        Trimmed(SubSeq(raw, SemicolonAt(semis, Len(raw), n - 1) + 1,
                            SemicolonAt(semis, Len(raw), n) - 1))]

\* the split rule: the texts between consecutive ';', trimmed, in order; no
\* piece at all for the empty text
SplitRule(raw) ==
    IF raw = "" THEN <<>>
    ELSE CHOOSE pieces \in {PiecesBetween(raw, semis) : semis \in {Semicolons(raw)}} : TRUE

ListsFollowRule(df) ==
    \A i \in 1..Len(df.rows) :
        /\ {"apps_semelhantes_lista", "alertas_lista"} \subseteq df.columns
        /\ df.rows[i]["apps_semelhantes_lista"] = SplitRule(df.rows[i]["apps_semelhantes"])
        /\ df.rows[i]["alertas_lista"] = SplitRule(df.rows[i]["Alertas_etico_legais"])

\* C16: in every record of the normalized dataset and of every view of it,
\* apps_semelhantes_lista and alertas_lista are the pieces of the raw field
\* between its ';', each trimmed, in order, and the empty sequence when the raw
\* field is empty.
C16_ListsFollowSplitRule ==
    /\ ListsFollowRule(dp_df)
    /\ ListsFollowRule(fm_df)
    /\ ListsFollowRule(df_filtered)
    /\ ListsFollowRule(df_final)

\* C16 witness: a loaded dataset with an empty raw field giving the empty
\* sequence, and a raw field with inner white space and a repeated name giving
\* its three trimmed pieces in order.
C16_Witness ==
    /\ pc = "loaded"
    /\ Len(dp_df.rows) = 2
    /\ dp_df.rows[1]["apps_semelhantes"] = ""
    /\ dp_df.rows[1]["apps_semelhantes_lista"] = <<>>
    /\ dp_df.rows[2]["apps_semelhantes"] = " Uber ;99 ; Uber"
    /\ dp_df.rows[2]["apps_semelhantes_lista"] = <<"Uber", "99", "Uber">>
    /\ dp_df.rows[2]["alertas_lista"] =
          <<"LGPD (dados pessoais/sensíveis)", "Coleta de localização", "">>

\* the four complexity levels
ComplexityLevels == {"Baixa", "Média", "Média-Alta", "Alta"}

\* C17: every record of the normalized dataset has a Complexidade that is one
\* of the four levels, and get_complexity_distribution has no bucket for
\* anything but a level, so a value missing in the source is never counted.
C17_ComplexityIsALevel ==
    /\ \A i \in 1..Len(dp_df.rows) : dp_df.rows[i]["Complexidade"] \in ComplexityLevels
    /\ (shown.query = "get_complexity_distribution" /\ shown.exc = "") =>
           DOMAIN shown.out \subseteq ComplexityLevels

\* C17, the second half alone: the distribution has no bucket outside the levels
C17_NoBucketForMissing ==
    (shown.query = "get_complexity_distribution" /\ shown.exc = "") =>
        DOMAIN shown.out \subseteq ComplexityLevels

\* the display name of each feature column
DisplayNames ==
    << <<"RN_camera", "Camera">>, <<"RN_maps", "Maps">>,
       <<"RN_notificacoes", "Notificacoes">>, <<"RN_autenticacao", "Autenticacao">>,
       <<"RN_pagamentos", "Pagamentos">> >>

\* the record has RN_camera and RN_maps at 'Sim' and no other flag at 'Sim'
CameraAndMapsOnly(row) ==
    \A k \in 1..Len(DisplayNames) :
        (row[DisplayNames[k][1]] = "Sim") = (DisplayNames[k][1] \in {"RN_camera", "RN_maps"})

\* C18: get_rn_features_usage has one entry per feature, under its capitalized
\* display name, holding the number of records of the view whose flag is
\* exactly 'Sim'; the count is between 0 and the number of records, and a
\* record with only RN_camera and RN_maps at 'Sim' has feature count 2 and is
\* counted under Camera and Maps.
C18_UsageCountsSim ==
    (shown.query = "get_rn_features_usage") =>
        /\ shown.exc = ""
        /\ DOMAIN shown.out = {DisplayNames[k][2] : k \in 1..Len(DisplayNames)}
        /\ \A k \in 1..Len(DisplayNames) :
              /\ shown.out[DisplayNames[k][2]] =
                    Cardinality({i \in 1..Len(QueryFrame.rows) :
                                    QueryFrame.rows[i][DisplayNames[k][1]] = "Sim"})
              /\ shown.out[DisplayNames[k][2]] >= 0
              /\ shown.out[DisplayNames[k][2]] <= Len(QueryFrame.rows)
        /\ \A i \in 1..Len(QueryFrame.rows) :
              CameraAndMapsOnly(QueryFrame.rows[i]) =>
                  /\ NumFeatures(QueryFrame.rows[i]) = 2
                  /\ shown.out["Camera"] >= 1
                  /\ shown.out["Maps"] >= 1

\* C18 witness: the usage of a view of two records, one with only RN_camera and
\* RN_maps at 'Sim' ('nao' and '' elsewhere), the other with 'sim' in RN_camera:
\* 1 under Camera and Maps, 0 elsewhere.
C18_Witness ==
    /\ shown.query = "get_rn_features_usage"
    /\ Len(QueryFrame.rows) = 2
    /\ CameraAndMapsOnly(QueryFrame.rows[1])
    /\ QueryFrame.rows[1]["RN_autenticacao"] = "nao"
    /\ QueryFrame.rows[1]["RN_pagamentos"] = ""
    /\ QueryFrame.rows[2]["RN_camera"] = "sim"
    /\ shown.out = [Camera |-> 1, Maps |-> 1, Notificacoes |-> 0,
                    Autenticacao |-> 0, Pagamentos |-> 0]

\* the occurrences of x in the lists df[col] of the rows i..Len(df.rows)
RECURSIVE OccurrencesInRows(_, _, _, _)
OccurrencesInRows(df, col, x, i) ==
    IF i > Len(df.rows) THEN 0
    ELSE Occurrences(df.rows[i][col], x) + OccurrencesInRows(df, col, x, i + 1)

\* the total length of the lists df[col] of the rows i..Len(df.rows)
RECURSIVE TotalLength(_, _, _)
TotalLength(df, col, i) ==
    IF i > Len(df.rows) THEN 0
    ELSE Len(df.rows[i][col]) + TotalLength(df, col, i + 1)

\* the names that occur in some list df[col]
NamesIn(df, col) ==
    UNION {{df.rows[i][col][j] : j \in 1..Len(df.rows[i][col])} : i \in 1..Len(df.rows)}

\* the sum of the counts of the names of S
RECURSIVE SumOfCounts(_, _)
SumOfCounts(counts, S) ==
    IF S = {} THEN 0
    ELSE LET v == CHOOSE w \in S : TRUE
         IN  counts[v] + SumOfCounts(counts, S \ {v})

LgpdAlert == "LGPD (dados pessoais/sensíveis)"

\* the mapping out is the alert count of the view df
AlertCountsOfView(out, df) ==
    /\ DOMAIN out = NamesIn(df, "alertas_lista")
    /\ \A name \in DOMAIN out :
          out[name] = OccurrencesInRows(df, "alertas_lista", name, 1)
    /\ SumOfCounts(out, DOMAIN out) = TotalLength(df, "alertas_lista", 1)
    /\ (/\ Len(df.rows) = 2
        /\ df.rows[1]["Alertas_etico_legais"] = LgpdAlert
        /\ df.rows[2]["Alertas_etico_legais"] = "") =>
          /\ DOMAIN out = {LgpdAlert}
          /\ out[LgpdAlert] = 1

\* no record of df has an alert
NoAlertAnywhere(df) ==
    \A i \in 1..Len(df.rows) :
        "alertas_lista" \in df.columns => df.rows[i]["alertas_lista"] = <<>>

\* C19: get_ethical_alerts_count has one entry per distinct name in the rows'
\* alertas_lista, holding the number of its occurrences over all rows; the
\* counts add up to the total length of the lists; it returns the empty mapping
\* when no row has any alert; and for two records with the alerts
\* 'LGPD (dados pessoais/sensíveis)' and '' it is that name with count 1 alone.
C19_AlertCountsAreOccurrences ==
    (shown.query = "get_ethical_alerts_count") =>
        /\ NoAlertAnywhere(QueryFrame) => (shown.exc = "" /\ DOMAIN shown.out = {})
        /\ shown.exc = "" => AlertCountsOfView(shown.out, QueryFrame)

\* C19, for the calls that return: the mapping is the alert count of the view,
\* and it is empty when no row has any alert
C19_HoldsWhenReturned ==
    (shown.query = "get_ethical_alerts_count" /\ shown.exc = "") =>
        /\ AlertCountsOfView(shown.out, QueryFrame)
        /\ NoAlertAnywhere(QueryFrame) => DOMAIN shown.out = {}

\* C19: a call returned the count of the two records with the alerts
\* 'LGPD (dados pessoais/sensíveis)' and ''
C19_ScenarioReached ==
    /\ shown.query = "get_ethical_alerts_count"
    /\ Len(QueryFrame.rows) = 2
    /\ QueryFrame.rows[1]["Alertas_etico_legais"] = LgpdAlert
    /\ QueryFrame.rows[2]["Alertas_etico_legais"] = ""
    /\ DOMAIN shown.out = {LgpdAlert}
    /\ shown.out[LgpdAlert] = 1

\* the names of the entries of a sequence of (name, count) pairs
ReturnedNames(out) == {out[k][1] : k \in 1..Len(out)}

\* C20: whenever get_apps_semelhantes_count returns, it returns at most 10
\* entries, each with the number of occurrences of its name over all rows'
\* apps_semelhantes_lista, in non-increasing order of count, and no name left
\* out occurs more often than a returned name.
C20_TopTenApps ==
    (shown.query = "get_apps_semelhantes_count" /\ shown.exc = "") =>
        /\ Len(shown.out) <= 10
        /\ \A k \in 1..Len(shown.out) :
              /\ shown.out[k][2] =
                    OccurrencesInRows(QueryFrame, "apps_semelhantes_lista", shown.out[k][1], 1)
              /\ shown.out[k][2] >= 1
              /\ \A j \in 1..Len(shown.out) : shown.out[j][1] = shown.out[k][1] => j = k
              /\ k < Len(shown.out) => shown.out[k][2] >= shown.out[k + 1][2]
        /\ \A name \in NamesIn(QueryFrame, "apps_semelhantes_lista") \ ReturnedNames(shown.out) :
              \A k \in 1..Len(shown.out) :
                  OccurrencesInRows(QueryFrame, "apps_semelhantes_lista", name, 1)
                      <= shown.out[k][2]

\* C20 witness: eleven names are mentioned, ten are returned, the most
\* mentioned first, and the name left out is one of the two mentioned once.
C20_Witness ==
    /\ shown.query = "get_apps_semelhantes_count"
    /\ shown.exc = ""
    /\ Cardinality(NamesIn(QueryFrame, "apps_semelhantes_lista")) = 11
    /\ Len(shown.out) = 10
    /\ shown.out[1] = <<"A", 6>>
    /\ shown.out[10][2] = 1
    /\ "K" \notin ReturnedNames(shown.out)

(***************************************************************************)
(* Claims about queries on empty input (SpecEmpty)                         *)
(***************************************************************************)
AggregationQueries ==
    {"get_complexity_distribution", "get_rn_features_usage",
     "get_apps_semelhantes_count", "get_ethical_alerts_count",
     "get_categories_analysis", "get_complexity_vs_features"}

\* a query was answered on a frame without rows
AnsweredOnEmptyInput ==
    /\ shown.query \in AggregationQueries
    /\ QueryFrame.rows = <<>>

\* C21: no aggregation query raises on empty input, be it a filtered view
\* without rows or the empty Dataset left by a failed load; each returns an
\* empty mapping or sequence.
C21_QueriesTotalOnEmptyInput ==
    AnsweredOnEmptyInput =>
        /\ shown.exc = ""
        /\ DOMAIN shown.out = {}

\* C21, the part that holds: on a view without rows of a Dataset with records
\* no query raises, the two counts, the distribution and the comparison are
\* empty, the usage holds 0 for each feature and every category is empty
C21_HoldsOnViewsOfRecords ==
    (AnsweredOnEmptyInput /\ dp_df.rows # <<>>) =>
        /\ shown.exc = ""
        /\ shown.query \notin {"get_rn_features_usage", "get_categories_analysis"} =>
              DOMAIN shown.out = {}
        /\ shown.query = "get_rn_features_usage" =>
              \A name \in DOMAIN shown.out : shown.out[name] = 0
        /\ shown.query = "get_categories_analysis" =>
              \A name \in DOMAIN shown.out : shown.out[name] = <<>>

\* C21: the queries that raise on an empty Dataset, by the way the Dataset
\* became empty
C21_RaisesOnEmptyDataset ==
    (AnsweredOnEmptyInput /\ dp_df.rows = <<>>) =>
        (shown.exc # "") =
            \/ /\ dp_df.columns = {}
               /\ shown.query \in {"get_complexity_distribution", "get_rn_features_usage",
                                   "get_apps_semelhantes_count", "get_ethical_alerts_count"}
            \/ /\ "alertas_lista" \notin dp_df.columns
               /\ shown.query \in {"get_apps_semelhantes_count", "get_ethical_alerts_count"}

(***************************************************************************)
(* Claims about the remaining queries and the derived lists (SpecQuery)    *)
(***************************************************************************)
\* C24: get_complexity_vs_features returns one row per record of the view, in
\* the order of the view: 'ideia' the whole summary when it has at most 50
\* characters and else its first 50 characters and '...',
\* 'recursos_necessarios' the number of the five flags equal to 'Sim', within
\* 0..5, and 'tem_alertas' true exactly when alertas_lista is not empty.
C24_OneRowPerRecord ==
    (shown.query = "get_complexity_vs_features" /\ shown.exc = "") =>
        /\ Len(shown.out) = Len(QueryFrame.rows)
        /\ \A i \in 1..Len(shown.out) :
              \A row \in {QueryFrame.rows[i]} :
                  /\ Len(row["ideia_resumo"]) <= 50 =>
                        shown.out[i].ideia = row["ideia_resumo"]
                  /\ Len(row["ideia_resumo"]) > 50 =>
                        /\ Len(shown.out[i].ideia) = 53
                        /\ SubSeq(shown.out[i].ideia, 1, 50) = SubSeq(row["ideia_resumo"], 1, 50)
                        /\ SubSeq(shown.out[i].ideia, 51, 53) = "..."
                  /\ shown.out[i].complexidade = row["Complexidade"]
                  /\ shown.out[i].recursos_necessarios = AffirmativeFlags(row)
                  /\ shown.out[i].recursos_necessarios \in 0..5
                  /\ shown.out[i].tem_alertas = (row["alertas_lista"] # <<>>)

\* C24 witness: the comparison of three records with summaries of 50, 51 and
\* 74 characters: the first whole, the other two cut; 1, 2 and 5 features; the
\* second with a blank alert field, hence one empty alert.
C24_Witness ==
    /\ shown.query = "get_complexity_vs_features"
    /\ Len(shown.out) = 3
    /\ shown.out[1].ideia = "Aplicativo de trocas de livros usados entre alunos"
    /\ shown.out[2].ideia = "Aplicativo de trocas de livros usados entre colega..."
    /\ shown.out[3].ideia = "Plataforma de monitoria entre alunos com agenda e ..."
    /\ shown.out[1].recursos_necessarios = 1
    /\ shown.out[2].recursos_necessarios = 2
    /\ shown.out[3].recursos_necessarios = 5
    /\ ~shown.out[1].tem_alertas
    /\ shown.out[2].tem_alertas
    /\ shown.out[3].tem_alertas

\* the four keywords of the claim, each with its category
CoveredKeywords ==
    { <<"cassino social", "Redes Sociais">>, <<"educação financeira", "Finanças">>,
      <<"rotina diária", "Produtividade">>, <<"eventos da cidade", "Transporte/Localização">> }

\* keyword j of category k is checked before keyword j2 of category k2
CheckedBefore(k, j, k2, j2) == k < k2 \/ (k = k2 /\ j < j2)

\* the keyword is in the table under the category, at a place after another
\* keyword that is a part of it
IsCovered(keyword, category) ==
    \E k2 \in 1..Len(category_keywords) :
        /\ category_keywords[k2].category = category
        /\ \E j2 \in 1..Len(category_keywords[k2].keywords) :
              /\ category_keywords[k2].keywords[j2] = keyword
              /\ \E k \in 1..Len(category_keywords) :
                    \E j \in 1..Len(category_keywords[k].keywords) :
                        /\ CheckedBefore(k, j, k2, j2)
                        /\ Contains(keyword, category_keywords[k].keywords[j])

\* the keywords of a place of the table that are none of the four
KeptKeywords(k) ==
    {category_keywords[k].keywords[j] : j \in 1..Len(category_keywords[k].keywords)}
        \ {p[1] : p \in CoveredKeywords}

\* the category of a lower-cased summary by the table without the four keywords
CategoryWithoutCovered(ideia) ==
    LET hits == {k \in 1..Len(category_keywords) :
                    \E word \in KeptKeywords(k) : Contains(ideia, word)}
    IN  IF hits = {} THEN "Utilitários"
        ELSE category_keywords[CHOOSE k \in hits : \A h \in hits : k <= h].category

\* C25: each of the four keywords comes in the table after a keyword that is a
\* part of it, and get_categories_analysis lists every summary under the
\* category that the table without the four keywords gives it.
C25_CoveredKeywordsNeverDecide ==
    /\ \A p \in CoveredKeywords : IsCovered(p[1], p[2])
    /\ (shown.query = "get_categories_analysis" /\ shown.exc = "") =>
          \A i \in 1..Len(QueryFrame.rows) :
              \A summary \in {QueryFrame.rows[i]["ideia_resumo"]} :
                  \A category \in DOMAIN shown.out :
                      (Occurrences(shown.out[category], summary) > 0)
                          = (category = CategoryWithoutCovered(Lower(summary)))

\* C25 witness: the four summaries that hold one of the four keywords each are
\* listed under the category of the earlier keyword, none under the category
\* of the keyword it holds.
C25_Witness ==
    /\ shown.query = "get_categories_analysis"
    /\ source.lines = CoveredKeywordsTable
    /\ Len(QueryFrame.rows) = 4
    /\ shown.out["Redes Sociais"] = <<"Cassino social com amigos">>
    /\ shown.out["Educação"] = <<"Educação financeira para jovens">>
    /\ shown.out["Saúde/Bem-estar"] = <<"Minha rotina diária">>
    /\ shown.out["Entretenimento"] = <<"Guia de eventos da cidade">>
    /\ shown.out["Finanças"] = <<>>
    /\ shown.out["Produtividade"] = <<>>
    /\ shown.out["Transporte/Localização"] = <<>>

\* the places n of raw's pieces that hold white space only, for the positions
\* semis of its ';'
BlankPieces(raw, semis) ==
    {n \in 1..(Cardinality(semis) + 1) :
        \A k \in (SemicolonAt(semis, Len(raw), n - 1) + 1)
                     ..(SemicolonAt(semis, Len(raw), n) - 1) : IsSpace(Char(raw, k))}

\* the list is empty exactly for the empty raw text, else it has one element
\* per ';' and one more, the empty name at the places of the blank pieces
KeepsEveryPiece(raw, list) ==
    /\ (list = <<>>) = (raw = "")
    /\ raw # "" =>
          \A semis \in {Semicolons(raw)} :
              /\ Len(list) = Cardinality(semis) + 1
              /\ \A n \in BlankPieces(raw, semis) : list[n] = ""

\* the number of blank pieces in the raw texts df[col] of the rows from i on
RECURSIVE BlankPiecesInRows(_, _, _)
BlankPiecesInRows(df, col, i) ==
    IF i > Len(df.rows) THEN 0
    ELSE (IF df.rows[i][col] = "" THEN 0
          ELSE Cardinality(BlankPieces(df.rows[i][col], Semicolons(df.rows[i][col]))))
         + BlankPiecesInRows(df, col, i + 1)

\* C27: in every normalized record each of the two lists is empty exactly when
\* the raw text is the empty string and has otherwise one element per ';' and
\* one more, blank pieces being kept as empty names; get_ethical_alerts_count
\* counts the empty name once per blank piece, and so does
\* get_apps_semelhantes_count among the names it returns.
C27_BlankPiecesAreNames ==
    /\ \A i \in 1..Len(dp_df.rows) :
          /\ KeepsEveryPiece(dp_df.rows[i]["apps_semelhantes"],
                             dp_df.rows[i]["apps_semelhantes_lista"])
          /\ KeepsEveryPiece(dp_df.rows[i]["Alertas_etico_legais"],
                             dp_df.rows[i]["alertas_lista"])
    /\ (shown.query = "get_ethical_alerts_count" /\ shown.exc = "") =>
          \A blanks \in {BlankPiecesInRows(QueryFrame, "Alertas_etico_legais", 1)} :
              /\ ("" \in DOMAIN shown.out) = (blanks > 0)
              /\ blanks > 0 => shown.out[""] = blanks
    /\ (shown.query = "get_apps_semelhantes_count" /\ shown.exc = "") =>
          \A blanks \in {BlankPiecesInRows(QueryFrame, "apps_semelhantes", 1)} :
              /\ \A k \in 1..Len(shown.out) :
                    shown.out[k][1] = "" => shown.out[k][2] = blanks
              /\ (/\ blanks > 0
                  /\ Cardinality(NamesIn(QueryFrame, "apps_semelhantes_lista")) <= 10) =>
                    "" \in ReturnedNames(shown.out)

\* C27 witness: the alert count of a record with the raw text '; ;', three
\* blank pieces, holds the empty name three times and nothing else.
C27_Witness ==
    /\ shown.query = "get_ethical_alerts_count"
    /\ Len(QueryFrame.rows) = 4
    /\ QueryFrame.rows[1]["Alertas_etico_legais"] = "; ;"
    /\ QueryFrame.rows[1]["alertas_lista"] = <<"", "", "">>
    /\ QueryFrame.rows[1]["apps_semelhantes"] = "Zynga;;PokerStars;"
    /\ QueryFrame.rows[1]["apps_semelhantes_lista"] = <<"Zynga", "", "PokerStars", "">>
    /\ DOMAIN shown.out = {""}
    /\ shown.out[""] = 3

(***************************************************************************)
(* Claims about the overview tab (SpecMain)                                *)
(***************************************************************************)
\* the overview's cards are those of the frame: its number of records, the
\* tenth nearest to the mean of its records' numbers of 'Sim' flags, its
\* records of complexity 'Alta' or 'Média-Alta', its records with an alert
\* text, and its category summary cards
OverviewCardsAreOf(df) ==
    /\ shown.out.total_ideias = Len(df.rows)
    /\ \A total \in {SumOfCounts([i \in 1..Len(df.rows) |-> AffirmativeFlags(df.rows[i])],
                                 1..Len(df.rows))} :
          /\ 2 * (10 * total - shown.out.metrics.avg_features * Len(df.rows)) <= Len(df.rows)
          /\ 2 * (shown.out.metrics.avg_features * Len(df.rows) - 10 * total) <= Len(df.rows)
    /\ shown.out.metrics.high_complexity =
          Cardinality({i \in 1..Len(df.rows) :
                          df.rows[i]["Complexidade"] \in {"Alta", "Média-Alta"}})
    /\ shown.out.metrics.ethical_alerts =
          Cardinality({i \in 1..Len(df.rows) : Len(df.rows[i]["Alertas_etico_legais"]) > 0})
    /\ shown.out.category_cards = CategorySummaryCards(df)

\* the overview's two charts are those of the frame
OverviewChartsAreOf(df) ==
    /\ DOMAIN shown.out.complexity_chart =
          {df.rows[i]["Complexidade"] : i \in 1..Len(df.rows)}
    /\ \A level \in DOMAIN shown.out.complexity_chart :
          shown.out.complexity_chart[level] =
              Cardinality({i \in 1..Len(df.rows) : df.rows[i]["Complexidade"] = level})
    /\ \A k \in 1..Len(DisplayNames) :
          shown.out.features_chart.data[DisplayNames[k][2]] =
              Cardinality({i \in 1..Len(df.rows) : df.rows[i][DisplayNames[k][1]] = "Sim"})

\* C26: whatever the criteria of the run, the overview's metric cards and
\* category summary cards are those of the whole normalized Dataset, so two
\* runs on the same Dataset show the same cards; the complexity chart and the
\* feature chart of the tab are those of the filtered view.
C26_CardsOfDatasetChartsOfView ==
    (pc = "rendered" /\ ~raised) =>
        /\ \A base \in {NormalizedDataset} : OverviewCardsAreOf(base)
        /\ OverviewChartsAreOf(df_final)

\* C26 witness: a run whose criteria dropped a record of two: the cards count
\* both records, the charts the one record left.
C26_Witness ==
    /\ pc = "rendered"
    /\ ~raised
    /\ filters # NoFilters
    /\ Len(dp_df.rows) = 2
    /\ Len(df_final.rows) = 1
    /\ shown.out.total_ideias = 2
    /\ shown.out.metrics.avg_features # 10 * AffirmativeFlags(df_final.rows[1])
    /\ DOMAIN shown.out.complexity_chart = {"Alta"}
    /\ shown.out.complexity_chart["Alta"] = 1
    /\ shown.out.metrics.high_complexity = 2
    /\ shown.out.features_chart.drawn
====
